---- MODULE Spec2Model ----
(***************************************************************************)
(* Lead-qualification dialogue engine of the conversational sales agent:   *)
(* the session store (state_manager.py), the message entry points, the     *)
(* follow-up checker and the follow-up poll (react_agent/app.py), the      *)
(* staged root agent (root_agent_system.py), the coordinator of the four   *)
(* agents (agent.py), the graph workflow (graph.py) and the conversation   *)
(* handler of the first application (app.py).                              *)
(*                                                                         *)
(* Messages are sequences of word tokens over a small vocabulary; the      *)
(* regular expressions of the extractors are modelled by what they match   *)
(* on such token sequences.  Time is abstracted to the outcome of the two  *)
(* comparisons the code makes: "older than the one-minute threshold"       *)
(* (activity tracker) and "older than the 24 hour cutoff" (last_activity); *)
(* last_activity also tells "older than a minute" from "now".              *)
(*                                                                         *)
(* The Lead table and the Conversation table are written and never read;   *)
(* they are followed in the scenarios that say so.  Left out, because      *)
(* nothing modelled here reads them: the FollowUpMessage table, the        *)
(* 'started' rows of the leads file, StateManager._user_counters, and      *)
(* interaction_count and context_summary of the staged agent's sessions.   *)
(* Nothing in the applications calls get_follow_up_messages; it is called  *)
(* by the threads of the scenario of the follow-up queue.  call_agent_sync *)
(* is one step of a handler.                                               *)
(***************************************************************************)
EXTENDS Integers, Sequences, FiniteSets, TLC

(***************************************************************************)
(* Bounds of the model                                                     *)
(***************************************************************************)
MaxCsvRows == 2        \* confirmed rows per lead after which no request is admitted
MaxEnqueued == 4       \* queued follow-ups per lead after which no sweep visits the lead
MaxScript == 4         \* messages of a script
MaxCalls == 2          \* calls of StateManager mutators per thread
MaxPairEnqueued == 2   \* the same as MaxEnqueued, where two leads are swept

Leads == {"L1", "L2"}
Workers == {"w1", "w2"}

None == "None"
FieldSeq == <<"name", "age", "country", "interest">>
FieldSet == {"name", "age", "country", "interest"}
NoDetails == [f \in FieldSet |-> None]
EmptyDict == [f \in {} |-> None]

(***************************************************************************)
(* Vocabulary: what str.lower, str.title, str.isalpha, str.isdigit and     *)
(* int() give on the words used in the messages.                           *)
(***************************************************************************)
AlphaWords == {"alice", "france", "technology", "hello", "yes", "confirm",
               "Confirm", "how", "are", "you", "bye", "suggestions", "ok",
               "confirmed"}
DigitWords == {"25", "30", "150", "12", "7", "025"}

Title(t) ==
    CASE t = "alice" -> "Alice"
      [] t = "france" -> "France"
      [] t = "technology" -> "Technology"
      [] t = "hello" -> "Hello"
      [] t = "yes" -> "Yes"
      [] t = "confirm" -> "Confirm"
      [] t = "bye" -> "Bye"
      [] t = "suggestions" -> "Suggestions"
      [] t = "ok" -> "Ok"
      [] t = "confirmed" -> "Confirmed"
      [] t = "how" -> "How"
      [] t = "are" -> "Are"
      [] t = "you" -> "You"
      [] OTHER -> t

\* str.lower: the words of the messages are in lower case but for 'Confirm'
\* and for what str.title made of them
Lower(t) ==
    IF \E a \in AlphaWords : a # t /\ Title(a) = t
    THEN CHOOSE a \in AlphaWords : a # t /\ Title(a) = t
    ELSE t

IsAlpha(t) == t \in AlphaWords \/ t \in {Title(a) : a \in AlphaWords}
IsDigits(t) == t \in DigitWords

IntOf(t) ==
    CASE t = "25" -> 25
      [] t = "30" -> 30
      [] t = "150" -> 150
      [] t = "12" -> 12
      [] t = "7" -> 7
      [] t = "025" -> 25
      [] OTHER -> 0

\* str() of an int
StrOf(n) ==
    CASE n = 25 -> "25"
      [] n = 30 -> "30"
      [] n = 150 -> "150"
      [] n = 12 -> "12"
      [] n = 7 -> "7"
      [] OTHER -> "0"

LowerMsg(m) == [i \in 1..Len(m) |-> Lower(m[i])]

Messages == {
    <<"alice">>, <<"25">>, <<"150">>, <<"france">>, <<"technology">>,
    <<"confirm">>, <<"Confirm">>, <<"hello">>, <<"yes">>,
    <<"how", "are", "you", "?">>, <<"suggestions">>, <<"bye">>, <<"30">>,
    <<"confirmed">>, <<"12">>, <<"7">>, <<"my age is", "30">>, <<"025">> }

(***************************************************************************)
(* extract_user_details_from_user_message                                  *)
(***************************************************************************)
Truthy(v) == v # None /\ v # ""

NameIntro == {"my name is", "i'm", "i am", "call me", "name's"}
invalid_names == {"hi", "hello", "hey", "yes", "no", "ok", "sure", "good", "great",
                  "fine", "well", "glad", "happy", "nice", "thanks", "thank", "that",
                  "this", "hear", "you", "me", "we", "they"}
\* words of the vocabulary that contain 'glad', 'hear', 'that' or 'thanks'
HasBannedPart(t) == t \in {"glad", "hear", "that", "thanks"}

\* the candidates the three name patterns give, in pattern order
NameCandidates(low) ==
    LET intro == {i \in 1..(Len(low) - 1) : low[i] \in NameIntro /\ IsAlpha(low[i + 1])}
        first == CHOOSE i \in intro : \A j \in intro : i <= j
        p1 == IF intro = {} THEN <<>> ELSE <<low[first + 1]>>
        tail == {i \in 1..(Len(low) - 1) : IsAlpha(low[i]) /\ low[i + 1] = "is my name"}
        p2 == IF tail = {} THEN <<>>
              ELSE <<low[CHOOSE i \in tail : \A j \in tail : i <= j]>>
        p3 == IF Len(low) = 1 /\ IsAlpha(low[1]) THEN <<low[1]>> ELSE <<>>
    IN p1 \o p2 \o p3

ValidName(name) ==
    /\ Len(name) >= 2 /\ Len(name) <= 15
    /\ IsAlpha(name)
    /\ Lower(name) \notin invalid_names
    /\ ~HasBannedPart(Lower(name))

ExtractName(low) ==
    LET cands == [i \in 1..Len(NameCandidates(low)) |-> Title(NameCandidates(low)[i])]
        good == {i \in 1..Len(cands) : ValidName(cands[i])}
    IN IF good = {} THEN EmptyDict
       ELSE [f \in {"name"} |-> cands[CHOOSE i \in good : \A j \in good : i <= j]]

MinAge == 13
MaxAge == 120

AgeIntro == {"i'm", "i am", "my age is"}
AgeSuffix == {"years old", "yo"}

AgeCandidates(low) ==
    LET a == {i \in 1..(Len(low) - 1) : low[i] \in AgeIntro /\ IsDigits(low[i + 1])}
        p1 == IF a = {} THEN <<>>
              ELSE <<low[(CHOOSE i \in a : \A j \in a : i <= j) + 1]>>
        b == {i \in 1..(Len(low) - 1) : IsDigits(low[i]) /\ low[i + 1] \in AgeSuffix}
        p2 == IF b = {} THEN <<>>
              ELSE <<low[CHOOSE i \in b : \A j \in b : i <= j]>>
        p3 == IF Len(low) = 1 /\ IsDigits(low[1]) THEN <<low[1]>> ELSE <<>>
    IN p1 \o p2 \o p3

\* a check that takes every number for an age
any_number(age) == IsDigits(age)

ValidAge(age) == MinAge <= IntOf(age) /\ IntOf(age) <= MaxAge

ExtractAge(low) ==
    LET cands == AgeCandidates(low)
        good == {i \in 1..Len(cands) : ValidAge(cands[i])}
    IN IF good = {} THEN EmptyDict
       ELSE [f \in {"age"} |-> cands[CHOOSE i \in good : \A j \in good : i <= j]]

CountryIntro == {"i'm from", "from", "i live in", "in"}

\* every message of the vocabulary that a country pattern matches is one word
CountryCandidates(low) ==
    LET a == {i \in 1..(Len(low) - 1) : low[i] \in CountryIntro /\ IsAlpha(low[i + 1])}
        p1 == IF a = {} THEN <<>>
              ELSE <<low[(CHOOSE i \in a : \A j \in a : i <= j) + 1]>>
        p2 == IF Len(low) = 1 /\ IsAlpha(low[1]) THEN <<low[1]>> ELSE <<>>
    IN p1 \o p2

ExtractCountry(low) ==
    LET cands == [i \in 1..Len(CountryCandidates(low)) |-> Title(CountryCandidates(low)[i])]
        good == {i \in 1..Len(cands) : Len(cands[i]) > 2}
    IN IF good = {} THEN EmptyDict
       ELSE [f \in {"country"} |-> cands[CHOOSE i \in good : \A j \in good : i <= j]]

tech_keywords == {"technology", "tech", "smartphone", "laptop", "computer", "phone",
                  "electronics"}
fashion_keywords == {"fashion", "clothes", "clothing", "dress", "shirt", "shoes",
                     "accessories"}
home_keywords == {"home", "furniture", "decoration", "living", "kitchen", "bedroom"}

\* 'keyword in message_lower': no word of the vocabulary contains a keyword
\* without being one
HasKeyword(low, kws) == \E i \in 1..Len(low) : low[i] \in kws

InterestIntro == {"interested in", "looking for", "want", "need"}

InterestCandidates(low) ==
    LET a == {i \in 1..(Len(low) - 1) : low[i] \in InterestIntro /\ IsAlpha(low[i + 1])}
        p1 == IF a = {} THEN <<>>
              ELSE <<low[(CHOOSE i \in a : \A j \in a : i <= j) + 1]>>
        p2 == IF Len(low) = 1 /\ IsAlpha(low[1]) THEN <<low[1]>> ELSE <<>>
    IN p1 \o p2

ExtractInterest(low) ==
    IF HasKeyword(low, tech_keywords) THEN [f \in {"interest"} |-> "Technology"]
    ELSE IF HasKeyword(low, fashion_keywords) THEN [f \in {"interest"} |-> "Fashion"]
    ELSE IF HasKeyword(low, home_keywords) THEN [f \in {"interest"} |-> "Home & Living"]
    ELSE LET cands == InterestCandidates(low)
             good == {i \in 1..Len(cands) :
                        Len(cands[i]) > 2 /\ cands[i] \notin {"yes", "no", "ok", "sure"}}
         IN IF good = {} THEN EmptyDict
            ELSE [f \in {"interest"} |->
                    Title(cands[CHOOSE i \in good : \A j \in good : i <= j])]

\* an extractor that does not look at what is collected already
extract_whatever_matches(message, current_details) ==
    LET low == LowerMsg(message)
    IN IF DOMAIN ExtractName(low) # {} THEN ExtractName(low)
       ELSE IF DOMAIN ExtractAge(low) # {} THEN ExtractAge(low)
       ELSE IF DOMAIN ExtractCountry(low) # {} THEN ExtractCountry(low)
       ELSE ExtractInterest(low)

\* the if/elif chain: only the first field that is not collected is looked for
extract_user_details_from_user_message(message, current_details) ==
    LET low == LowerMsg(message)
    IN IF ~Truthy(current_details["name"]) THEN ExtractName(low)
       ELSE IF ~Truthy(current_details["age"]) THEN ExtractAge(low)
       ELSE IF ~Truthy(current_details["country"]) THEN ExtractCountry(low)
       ELSE IF ~Truthy(current_details["interest"]) THEN ExtractInterest(low)
       ELSE EmptyDict


(***************************************************************************)
(* Reply texts, as far as the code reads them back                         *)
(***************************************************************************)
Reply(kind, shown) == [kind |-> kind, shown |-> shown]
NoReply == Reply("none", NoDetails)

AllSet(d) == \A f \in FieldSet : Truthy(d[f])

\* format_details_for_confirmation: values with trailing punctuation removed
\* (no value of the vocabulary ends in punctuation)
format_details_for_confirmation(details) == Reply("confirmation", details)

generate_structured_response(d) ==
    IF Truthy(d["name"]) /\ ~Truthy(d["age"]) THEN Reply("ask_age", NoDetails)
    ELSE IF Truthy(d["age"]) /\ ~Truthy(d["country"]) THEN Reply("ask_country", NoDetails)
    ELSE IF Truthy(d["country"]) /\ ~Truthy(d["interest"]) THEN Reply("ask_interest", NoDetails)
    ELSE IF AllSet(d) THEN format_details_for_confirmation(d)
    ELSE Reply("generic", NoDetails)

\* a reply that thanks for the message whatever is missing
thanks_for_the_message(d) == Reply("generic", NoDetails)

\* the reply call_agent_sync builds when the message yields no value
structured_flow_reply(d) ==
    IF Truthy(d["name"]) /\ ~Truthy(d["age"]) THEN Reply("ask_age", NoDetails)
    ELSE IF Truthy(d["name"]) /\ Truthy(d["age"]) /\ ~Truthy(d["country"])
         THEN Reply("ask_country", NoDetails)
    ELSE IF Truthy(d["name"]) /\ Truthy(d["age"]) /\ Truthy(d["country"])
            /\ ~Truthy(d["interest"])
         THEN Reply("ask_interest", NoDetails)
    ELSE IF AllSet(d) THEN format_details_for_confirmation(d)
    ELSE IF Truthy(d["name"]) THEN Reply("generic", NoDetails)
    ELSE Reply("ask_name", NoDetails)

\* values of the vocabulary that contain what, how, when, where or why
QuestionWord(v) == v \in {"How", "how"}

\* values of the vocabulary that contain one of the invalid_phrases of the
\* interest filter ('me' in Home & Living, 'suggestions')
HasInvalidPhrase(v) == v \in {"Home & Living", "Suggestions", "You"}

\* extract_user_details: only a reply holding 'name:', 'age:', 'country:' is
\* parsed, and of the replies only the confirmation summary holds them
extract_user_details(reply) ==
    IF reply.kind # "confirmation" THEN NoDetails
    ELSE [f \in FieldSet |->
            IF ~Truthy(reply.shown[f]) THEN None
            ELSE IF f \in {"name", "country", "interest"} /\ QuestionWord(reply.shown[f])
                 THEN None
            ELSE IF f = "interest" /\ HasInvalidPhrase(reply.shown[f]) THEN None
            ELSE reply.shown[f]]

\* the 'safe update' filter applied to what was parsed from the reply
SafeUpdate(details, current_details) ==
    LET keys == {f \in FieldSet :
                   /\ Truthy(details[f])
                   /\ (~Truthy(current_details[f]) \/ Len(current_details[f]) < 2)}
    IN [f \in keys |-> details[f]]

(***************************************************************************)
(* StateManager (state_manager.py).  A store is the pair of the in-memory  *)
(* dictionary of ConversationState and the UserSession table; every        *)
(* operation runs under the manager's lock and yields the store after it   *)
(* and whether it raised.  ok = FALSE: the first durable write of the call *)
(* raises.                                                                 *)
(***************************************************************************)
NewState ==
    [current_step |-> "greeting", collected_details |-> NoDetails,
     last_activity |-> "now", is_active |-> TRUE,
     pending_confirmation |-> FALSE, follow_up_count |-> 0]

SessionRow(state) ==
    [session_data |-> [current_step |-> state.current_step,
                       collected_details |-> state.collected_details,
                       pending_confirmation |-> state.pending_confirmation,
                       follow_up_count |-> state.follow_up_count],
     last_activity |-> state.last_activity,
     is_active |-> state.is_active]

\* a load that takes the slots and the stage of the row and starts the
\* follow-up counter again
row_without_count(row) ==
    [current_step |-> row.session_data.current_step,
     collected_details |-> row.session_data.collected_details,
     last_activity |-> row.last_activity,
     is_active |-> row.is_active,
     pending_confirmation |-> row.session_data.pending_confirmation,
     follow_up_count |-> 0]

StateFromRow(row) ==
    [current_step |-> row.session_data.current_step,
     collected_details |-> row.session_data.collected_details,
     last_activity |-> row.last_activity,
     is_active |-> row.is_active,
     pending_confirmation |-> row.session_data.pending_confirmation,
     follow_up_count |-> row.session_data.follow_up_count]

Put(f, k, v) == (k :> v) @@ f

Out(cs, db, raised) == [cs |-> cs, db |-> db, raised |-> raised]

save_session_to_db(db, lead_id, state, ok) ==
    IF ok THEN Put(db, lead_id, SessionRow(state)) ELSE db

get_or_create_conversation_state(cs, db, lead_id, ok) ==
    IF lead_id \in DOMAIN cs THEN Out(cs, db, FALSE)
    ELSE IF lead_id \in DOMAIN db
         THEN Out(Put(cs, lead_id, StateFromRow(db[lead_id])), db, FALSE)
    ELSE Out(Put(cs, lead_id, NewState),
             save_session_to_db(db, lead_id, NewState, ok), ~ok)

\* kwargs: a function from attribute names to values
update_conversation_state(cs, db, lead_id, kwargs, ok) ==
    IF lead_id \notin DOMAIN cs THEN Out(cs, db, FALSE)
    ELSE LET old == cs[lead_id]
             set == [a \in DOMAIN old |-> IF a \in DOMAIN kwargs THEN kwargs[a] ELSE old[a]]
             state == [set EXCEPT !.last_activity = "now"]
         IN Out(Put(cs, lead_id, state), save_session_to_db(db, lead_id, state, ok), ~ok)

\* an update that writes the details into every session in memory
update_every_session(cs, db, lead_id, details, ok) ==
    LET got == get_or_create_conversation_state(cs, db, lead_id, ok)
    IN IF got.raised THEN got
       ELSE LET state(l) ==
                    [got.cs[l] EXCEPT
                       !.collected_details =
                           [f \in FieldSet |->
                              IF f \in DOMAIN details /\ Truthy(details[f])
                              THEN details[f] ELSE got.cs[l].collected_details[f]],
                       !.last_activity = "now"]
            IN Out([l \in DOMAIN got.cs |-> state(l)],
                   save_session_to_db(got.db, lead_id, state(lead_id), ok), ~ok)

update_collected_details(cs, db, lead_id, details, ok) ==
    LET got == get_or_create_conversation_state(cs, db, lead_id, ok)
    IN IF got.raised THEN got
       ELSE LET old == got.cs[lead_id]
                cd == [f \in FieldSet |->
                         IF f \in DOMAIN details /\ Truthy(details[f])
                         THEN details[f] ELSE old.collected_details[f]]
                state == [old EXCEPT !.collected_details = cd, !.last_activity = "now"]
            IN Out(Put(got.cs, lead_id, state),
                   save_session_to_db(got.db, lead_id, state, ok), ~ok)

\* get_collected_details: the state is created when it is not there
get_collected_details(cs, lead_id) ==
    IF lead_id \in DOMAIN cs THEN cs[lead_id].collected_details ELSE NoDetails

\* a completeness check that asks for the name only
name_is_enough(cs, lead_id) == Truthy(get_collected_details(cs, lead_id)["name"])

are_details_complete(cs, lead_id) == AllSet(get_collected_details(cs, lead_id))

\* a row of the Lead table without values
NewLead == [name |-> None, age |-> None, country |-> None, interest |-> None]

\* _update_lead_in_db(lead_id, details): the fields of this call's details
\* are written, the age as a number
update_lead_in_db(leads, lead_id, details) ==
    LET lead == IF lead_id \in DOMAIN leads THEN leads[lead_id] ELSE NewLead
        given(f) == f \in DOMAIN details /\ Truthy(details[f])
    IN Put(leads, lead_id,
           [name |-> IF given("name") THEN details["name"] ELSE lead.name,
            age |-> IF given("age")
                    THEN (IF IsDigits(details["age"]) THEN IntOf(details["age"]) ELSE None)
                    ELSE lead.age,
            country |-> IF given("country") THEN details["country"] ELSE lead.country,
            interest |-> IF given("interest") THEN details["interest"] ELSE lead.interest])



(***************************************************************************)
(* State                                                                   *)
(***************************************************************************)
VARIABLES
    scenario,             \* what the environment does in this behaviour (fixed)
    conversation_states,  \* StateManager._conversation_states
    db_sessions,          \* the UserSession table
    db_leads,             \* the Lead table
    activity_tracker,     \* StateManager._activity_tracker
    follow_up_queue,      \* StateManager._follow_up_queue
    csv_confirmed,        \* 'confirmed' rows of leads.csv, per lead
    conversation_rows,    \* the Conversation table: the 'user' and 'assistant'
                          \* rows the handlers save, per lead
    enqueued,             \* history: appends to a lead's follow-up queue since the
                          \* lead was last active
    handlers,             \* the request handlers in flight, per worker
    sweep_pc, sweep_todo, \* follow_up_checker: position, leads left in the sweep
    user_sessions,        \* RootControlAgent.user_sessions
    conversation_details, \* conversation_details of the first application (app.py)
    polled,               \* history: the last response of check_follow_up, per lead
    user_states,          \* UserStateManager.user_states of the coordinator (agent.py)
    agent_log,            \* history: the agent that handled a user's last message,
                          \* and whether a confirmation of the user was accepted
    graph_state,          \* the State of the last invocation of the graph (graph.py)
    served,               \* history: the pairs (user_id, session_id) a session of the
                          \* staged agent has been handed to, per session key
    queue_log,            \* history of the threads that call the follow-up queue:
                          \* the messages added and returned, per lead, and the
                          \* messages a call of get_follow_up_messages holds
    lock,                 \* StateManager._lock: the thread that holds it
    threads               \* the calls of StateManager methods in progress, per thread

storeVars == <<conversation_states, db_sessions, db_leads, activity_tracker,
               follow_up_queue, csv_confirmed, conversation_rows, enqueued>>
sweepVars == <<sweep_pc, sweep_todo>>
lockVars == <<lock, threads>>
coordVars == <<user_states, agent_log, graph_state, queue_log, served>>
vars == <<scenario, storeVars, handlers, sweepVars, user_sessions, conversation_details,
          polled, coordVars, lockVars>>

\* the store as one value, for the operations that are functions of it
World ==
    [cs |-> conversation_states, db |-> db_sessions, leads |-> db_leads,
     tracker |-> activity_tracker, queue |-> follow_up_queue, csvc |-> csv_confirmed,
     rows |-> conversation_rows, enq |-> enqueued]

SetWorld(W) ==
    /\ conversation_states' = W.cs
    /\ db_sessions' = W.db
    /\ db_leads' = W.leads
    /\ activity_tracker' = W.tracker
    /\ follow_up_queue' = W.queue
    /\ csv_confirmed' = W.csvc
    /\ conversation_rows' = W.rows
    /\ enqueued' = W.enq

With(W, out) == [W EXCEPT !.cs = out.cs, !.db = out.db]

\* the store after update_collected_details(lead_id, details) gave out: its
\* last statement, _update_lead_in_db, is reached when nothing before it raised.
\* Nothing reads the Lead table; it is followed in the scenarios that say so.
WithLead(W, out, lead_id, details) ==
    IF out.raised \/ ~scenario.leads THEN With(W, out)
    ELSE [With(W, out) EXCEPT !.leads = update_lead_in_db(@, lead_id, details)]

IdleH == [pc |-> "idle", lead |-> "none", ep |-> "none", msg |-> <<>>,
          user_details |-> EmptyDict, reply |-> NoReply,
          \* history: what the handler found when it began, and whether it
          \* has made the confirmed-status write
          found |-> "none", wrote |-> FALSE,
          \* history: what the worker's last request returned to its caller
          result |-> "none"]

\* the handler after its return: with a reply, or with the error its
\* 'except Exception' gives (the 500 of chat and conversation, the 'error'
\* event of handle_send_message).  The result is followed where the durable
\* store can fail; elsewhere no handler raises.
Returned(result) == IF scenario.faulty THEN [IdleH EXCEPT !.result = result] ELSE IdleH

Res(W, H) == [w |-> W, h |-> H]

\* outcomes of a durable write made by a handler: it raises only where the
\* scenario has a faulty store
Oks == IF scenario.faulty THEN BOOLEAN ELSE {TRUE}

\* the Conversation table is followed in the scenarios that send a lead a
\* script of messages; elsewhere its rows are left out
Followed == scenario.script > 0

\* a reply is carried to the closing save where the table is followed
Kept(reply) == IF Followed THEN reply ELSE NoReply

Row(role, content) == [role |-> role, content |-> content]

\* save_conversation_message(lead_id, role, content): one more row
save_conversation_message(W, lead_id, role, content) ==
    IF Followed THEN [W EXCEPT !.rows[lead_id] = Append(@, Row(role, content))]
    ELSE W

(***************************************************************************)
(* Request handlers of app.py: chat (POST /chat), conversation (POST       *)
(* /conversation/<lead_id>) and handle_send_message (WebSocket).  A step   *)
(* is one lock section of the StateManager with the local computation      *)
(* that follows it; HStep gives the store and the handler after the step.  *)
(***************************************************************************)
EntryPoints == {"chat", "form", "ws"}

IsConfirm(m) == LowerMsg(m) = <<"confirm">>

exit_commands == {"exit", "bye", "goodbye", "quit", "end", "stop", "finish", "leave"}
is_exit_command(m) == \E i \in 1..Len(m) : Lower(m[i]) \in exit_commands

suggestion_keywords == {"suggestion", "suggestions", "recommend", "recommendation",
                        "recommendations", "catalog"}
IsSuggestion(m) == \E i \in 1..Len(m) : Lower(m[i]) \in suggestion_keywords

generic_interests == {"general", "everything", "anything", "all products", "various",
                      "multiple", "different"}
GenericInterest(v) == Lower(v) \in generic_interests \/ Len(v) < 4

\* the field the extractor looks for: the first one that is not collected
FirstMissing(d) ==
    IF ~Truthy(d["name"]) THEN "name"
    ELSE IF ~Truthy(d["age"]) THEN "age"
    ELSE IF ~Truthy(d["country"]) THEN "country"
    ELSE IF ~Truthy(d["interest"]) THEN "interest"
    ELSE "none"

\* where a handler goes after its first statements
AfterEntry(ep, m) ==
    IF ep = "chat" THEN (IF IsConfirm(m) THEN "check_pending" ELSE "extract")
    ELSE IF ep = "form"
         THEN (IF IsConfirm(m) THEN "check_pending"
               ELSE IF IsSuggestion(m) THEN "suggest" ELSE "extract")
    ELSE (IF IsConfirm(m) THEN "ws_confirm"
          ELSE IF IsSuggestion(m) THEN "suggest" ELSE "extract")

\* record_user_activity, the first statement of the three handlers
EnterRequest(W, l, ep, m, ok) ==
    LET out == update_conversation_state(W.cs, W.db, l,
                                         [a \in {"last_activity"} |-> "now"], ok)
        found == IF /\ l \in DOMAIN W.cs
                    /\ W.cs[l].pending_confirmation
                    /\ AllSet(W.cs[l].collected_details)
                 THEN "pending"
                 ELSE IF FirstMissing(get_collected_details(W.cs, l)) = "age"
                 THEN "age missing" ELSE "other"
        W1 == [With(W, out) EXCEPT !.tracker = Put(W.tracker, l, "recent"),
                                   !.enq[l] = 0]
    IN IF out.raised THEN Res(W1, Returned("error"))
       ELSE IF ep = "form" /\ is_exit_command(m) THEN Res(W1, Returned("reply"))
       ELSE Res(W1, [IdleH EXCEPT !.pc = IF ep = "form" THEN AfterEntry(ep, m)
                                        ELSE "save_user",
                                  !.lead = l, !.ep = ep, !.msg = m,
                                  !.found = found])

ConfirmedKwargs == [a \in {"current_step", "pending_confirmation"} |->
                      IF a = "current_step" THEN "confirmed" ELSE FALSE]
ConfirmationKwargs == [a \in {"current_step", "pending_confirmation"} |->
                         IF a = "current_step" THEN "confirmation" ELSE TRUE]
PendingKwargs == [a \in {"pending_confirmation"} |-> TRUE]
CollectingKwargs == [a \in {"current_step", "is_active"} |->
                       IF a = "current_step" THEN "collecting_details" ELSE TRUE]

\* a step that only reads the state (which get_or_create_conversation_state
\* creates when it is not there) and goes on to label(state store)
ReadStep(W, H, ok, label(_)) ==
    LET out == get_or_create_conversation_state(W.cs, W.db, H.lead, ok)
    IN IF out.raised THEN Res(With(W, out), Returned("error"))
       ELSE Res(With(W, out), [H EXCEPT !.pc = label(out.cs)])

\* a step that calls update_conversation_state(lead_id, **kwargs)
WriteStep(W, H, ok, kwargs, label) ==
    LET out == update_conversation_state(W.cs, W.db, H.lead, kwargs, ok)
    IN IF out.raised THEN Res(With(W, out), Returned("error"))
       ELSE Res(With(W, out), [H EXCEPT !.pc = label])

\* 'if state.pending_confirmation' of chat and conversation
CheckPending(W, H, ok) ==
    LET label(cs) == IF cs[H.lead].pending_confirmation THEN "check_complete"
                     ELSE "extract"
    IN ReadStep(W, H, ok, label)

\* 'if state_manager.are_details_complete(lead_id)' under 'confirm'
CheckComplete(W, H, ok) ==
    LET label(cs) == IF are_details_complete(cs, H.lead) THEN "confirm_write"
                     ELSE IF H.pc = "ws_confirm" THEN "finish" ELSE "extract"
        r == ReadStep(W, H, ok, label)
    IN IF r.h.pc = "finish"
       THEN Res(r.w, [r.h EXCEPT !.reply = Kept(Reply("details_missing", NoDetails))])
       ELSE r

\* update_conversation_state(lead_id, current_step='confirmed', pending_confirmation=False)
ConfirmWrite(W, H, ok) ==
    LET r == WriteStep(W, H, ok, ConfirmedKwargs, "confirm_csv")
    IN IF r.h.pc = "idle" THEN r ELSE Res(r.w, [r.h EXCEPT !.wrote = TRUE])

\* save_to_csv(..., 'confirmed'); clean_incomplete_csv_entries then drops the
\* rows that lack age, country or interest, which no confirmed row does
\* chat and conversation then save the user's message and the thanks and
\* return; handle_send_message goes on to its closing save
ConfirmCsv(W, H) ==
    LET W1 == [W EXCEPT !.csvc[H.lead] = @ + 1]
        thanks == Reply("confirmed", NoDetails)
    IN IF H.ep = "ws"
       THEN Res(W1, [H EXCEPT !.pc = "finish", !.reply = Kept(thanks)])
       ELSE Res(save_conversation_message(
                    save_conversation_message(W1, H.lead, "user", H.msg),
                    H.lead, "assistant", thanks),
                [H EXCEPT !.pc = "finish"])

\* the product suggestions of conversation and handle_send_message
Suggest(W, H) ==
    Res(W, [H EXCEPT !.pc = "finish", !.reply = Kept(Reply("suggestions", NoDetails))])

\* user_details = extract_user_details_from_user_message(message, lead_id)
Extract(W, H, ok) ==
    LET out == get_or_create_conversation_state(W.cs, W.db, H.lead, ok)
        found == extract_user_details_from_user_message(
                     H.msg, get_collected_details(out.cs, H.lead))
    IN IF out.raised THEN Res(With(W, out), Returned("error"))
       ELSE Res(With(W, out), [H EXCEPT !.user_details = found,
                                        !.pc = IF DOMAIN found # {} THEN "update"
                                               ELSE "agent"])

\* state_manager.update_collected_details(lead_id, user_details)
Update(W, H, ok) ==
    LET out == update_collected_details(W.cs, W.db, H.lead, H.user_details, ok)
    IN IF out.raised THEN Res(With(W, out), Returned("error"))
       ELSE Res(WithLead(W, out, H.lead, H.user_details),
                [H EXCEPT !.pc = "after_update", !.user_details = EmptyDict])

\* the reply for what was collected, and the completeness check after the update
AfterUpdate(W, H, ok) ==
    LET out == get_or_create_conversation_state(W.cs, W.db, H.lead, ok)
        collected == get_collected_details(out.cs, H.lead)
        complete == AllSet(collected)
        label == CASE H.ep = "chat" -> (IF complete THEN "set_confirmation" ELSE "finish")
                   [] H.ep = "ws" -> (IF complete THEN "ws_set_pending" ELSE "safe")
                   [] OTHER -> "form_tail"
    IN IF out.raised THEN Res(With(W, out), Returned("error"))
       ELSE Res(With(W, out),
                \* only handle_send_message reads the reply again
                [H EXCEPT !.reply = IF H.ep = "ws"
                                    THEN generate_structured_response(collected)
                                    ELSE Kept(generate_structured_response(collected)),
                          !.pc = label])

\* call_agent_sync: the reply it returns for what it found in the message and
\* the store it leaves
agent_response(W, H, found, out) ==
    LET current_details == get_collected_details(out.cs, H.lead)
    IN Res(IF DOMAIN found # {} THEN WithLead(W, out, H.lead, found) ELSE With(W, out),
           [H EXCEPT !.pc = "safe",
                     !.reply = IF out.raised THEN Reply("generic", NoDetails)
                               ELSE IF DOMAIN found # {}
                               THEN generate_structured_response(current_details)
                               ELSE structured_flow_reply(current_details)])

agent_update(W, H, got, found, ok) ==
    agent_response(W, H, found,
                   IF got.raised \/ DOMAIN found = {} THEN got
                   ELSE update_collected_details(got.cs, got.db, H.lead, found, ok))

agent_extract(W, H, got, ok) ==
    agent_update(W, H, got,
                 extract_user_details_from_user_message(
                     H.msg, get_collected_details(got.cs, H.lead)),
                 ok)

\* call_agent_sync: extracts from the message again, updates, and builds the
\* reply; whatever it raises is caught and a fixed reply returned
call_agent_sync(W, H, ok) ==
    agent_extract(W, H, get_or_create_conversation_state(W.cs, W.db, H.lead, ok), ok)

\* details = extract_user_details(agent_reply) and the 'safe update' with them
SafeUpdateFromReply(W, H, ok) ==
    LET l == H.lead
        got == get_or_create_conversation_state(W.cs, W.db, l, ok)
        safe_update == SafeUpdate(extract_user_details(H.reply),
                                  get_collected_details(got.cs, l))
        upd == update_collected_details(got.cs, got.db, l, safe_update, ok)
        out == IF got.raised \/ DOMAIN safe_update = {} THEN got ELSE upd
        label == CASE H.ep = "chat" -> "check_complete2"
                   [] H.ep = "form" -> "form_tail"
                   [] OTHER -> "finish"
    IN IF out.raised THEN Res(With(W, out), Returned("error"))
       ELSE Res(IF DOMAIN safe_update = {} THEN With(W, out)
                ELSE WithLead(W, out, l, safe_update),
                [H EXCEPT !.pc = label, !.reply = Kept(H.reply)])

\* chat: the completeness check after the agent's reply
CheckComplete2(W, H, ok) ==
    LET label(cs) == IF are_details_complete(cs, H.lead) THEN "set_confirmation"
                     ELSE "finish"
    IN ReadStep(W, H, ok, label)

\* conversation: the checks that follow the extraction
FormTail(W, H, ok) ==
    LET label(cs) ==
          IF AllSet(get_collected_details(cs, H.lead))
             /\ ~GenericInterest(get_collected_details(cs, H.lead)["interest"])
          THEN "set_confirmation" ELSE "finish"
        r == ReadStep(W, H, ok, label)
        collected == get_collected_details(r.w.cs, H.lead)
        \* format_product_interest_request, or the request for a specific interest
        response == IF /\ Truthy(collected["name"]) /\ Truthy(collected["age"])
                       /\ Truthy(collected["country"])
                       /\ (~Truthy(collected["interest"]) \/ r.h.pc = "finish")
                    THEN Reply("ask_interest", NoDetails)
                    ELSE H.reply
    IN IF r.h.pc = "idle" THEN r ELSE Res(r.w, [r.h EXCEPT !.reply = Kept(response)])

\* update_conversation_state(lead_id, current_step='confirmation',
\* pending_confirmation=True); the reply is the confirmation prompt
SetConfirmation(W, H, ok) ==
    LET r == WriteStep(W, H, ok, ConfirmationKwargs, "finish")
    IN IF r.h.pc = "idle" THEN r
       ELSE Res(r.w, [r.h EXCEPT !.reply = Kept(format_details_for_confirmation(
                                                get_collected_details(r.w.cs, H.lead)))])

\* save_conversation_message(lead_id, 'user', message), the first durable
\* write of chat and handle_send_message after record_user_activity
SaveUser(W, H, ok) ==
    LET r == ReadStep(W, H, ok, LAMBDA cs : AfterEntry(H.ep, H.msg))
    IN IF ok THEN Res(save_conversation_message(r.w, H.lead, "user", H.msg), r.h)
       ELSE Res(r.w, Returned("error"))

\* the closing save_conversation_message calls and the return
Finish(W, H, ok) ==
    LET out == get_or_create_conversation_state(W.cs, W.db, H.lead, ok)
        W1 == With(W, out)
        W2 == IF H.ep = "form" THEN save_conversation_message(W1, H.lead, "user", H.msg)
              ELSE W1
    IN Res(IF out.raised \/ H.reply = NoReply THEN W1
           ELSE save_conversation_message(W2, H.lead, "assistant", H.reply),
           Returned(IF out.raised THEN "error" ELSE "reply"))

\* start_conversation, second statement:
\* update_conversation_state(lead_id, current_step='collecting_details', is_active=True)
StartState(W, H, ok) ==
    LET out == update_conversation_state(W.cs, W.db, H.lead, CollectingKwargs, ok)
    IN Res(With(W, out), IdleH)

HStep(W, H, ok) ==
    CASE H.pc = "save_user" -> SaveUser(W, H, ok)
      [] H.pc = "check_pending" -> CheckPending(W, H, ok)
      [] H.pc \in {"check_complete", "ws_confirm"} -> CheckComplete(W, H, ok)
      [] H.pc = "confirm_write" -> ConfirmWrite(W, H, ok)
      [] H.pc = "confirm_csv" -> ConfirmCsv(W, H)
      [] H.pc = "suggest" -> Suggest(W, H)
      [] H.pc = "extract" -> Extract(W, H, ok)
      [] H.pc = "update" -> Update(W, H, ok)
      [] H.pc = "after_update" -> AfterUpdate(W, H, ok)
      [] H.pc = "set_confirmation" -> SetConfirmation(W, H, ok)
      [] H.pc = "ws_set_pending" -> WriteStep(W, H, ok, PendingKwargs, "safe")
      [] H.pc = "agent" -> call_agent_sync(W, H, ok)
      [] H.pc = "safe" -> SafeUpdateFromReply(W, H, ok)
      [] H.pc = "check_complete2" -> CheckComplete2(W, H, ok)
      [] H.pc = "form_tail" -> FormTail(W, H, ok)
      [] H.pc = "finish" -> Finish(W, H, ok)
      [] H.pc = "start_state" -> StartState(W, H, ok)

HandlerLabels ==
    {"save_user", "check_pending", "check_complete", "ws_confirm", "confirm_write",
     "confirm_csv", "suggest", "extract", "update", "after_update", "set_confirmation",
     "ws_set_pending", "agent", "safe", "check_complete2", "form_tail", "finish",
     "start_state"}

StepAll(S, oks) ==
    UNION {IF r.h.pc = "idle" THEN {r} ELSE {HStep(r.w, r.h, ok) : ok \in oks} : r \in S}

\* the stores a handler can leave when it runs to its end without interruption:
\* a handler has no loop, so it is over after as many steps as there are labels
Outcomes(W, H, oks) ==
    LET R[i \in 0..Cardinality(HandlerLabels)] ==
            IF i = 0 THEN {Res(W, H)} ELSE StepAll(R[i - 1], oks)
    IN R[Cardinality(HandlerLabels)]

RunHandler(W, H, oks) == {r.w : r \in Outcomes(W, H, oks)}

\* start_conversation with a name, first statement:
\* update_collected_details(lead_id, {'name': name})
EnterStart(W, l, name, ok) ==
    LET out == update_collected_details(W.cs, W.db, l, [f \in {"name"} |-> name], ok)
        W1 == [WithLead(W, out, l, [f \in {"name"} |-> name]) EXCEPT !.enq[l] = 0]
    IN IF out.raised THEN Res(W1, IdleH)
       ELSE Res(W1, [IdleH EXCEPT !.pc = "start_state", !.lead = l,
                                  !.ep = "start", !.msg = <<name>>])

\* conversation, GET: the welcome for what is collected so far
conversation_get(W, l, ok) ==
    LET got == get_or_create_conversation_state(W.cs, W.db, l, ok)
        upd == update_conversation_state(got.cs, got.db, l, ConfirmationKwargs, ok)
    IN IF ~got.raised /\ AllSet(get_collected_details(got.cs, l))
       THEN With(W, upd) ELSE With(W, got)


(***************************************************************************)
(* follow_up_checker (app.py) and the StateManager operations it calls     *)
(***************************************************************************)
MaxFollowUps == 3

get_inactive_users(W) ==
    {l \in DOMAIN W.tracker :
        /\ W.tracker[l] = "stale"
        /\ l \in DOMAIN W.cs
        /\ W.cs[l].is_active}

\* the three follow-up texts, chosen by state.follow_up_count
follow_up_message(count) ==
    IF count = 0 THEN "stepped away"
    ELSE IF count = 1 THEN "checking in"
    ELSE "whenever you're ready"

\* add_follow_up_message: the append to the queue comes before the commit
add_follow_up_message(W, l, message) ==
    [W EXCEPT !.queue[l] = Append(@, message), !.enq[l] = @ + 1]

\* get_follow_up_messages up to the commit: the queue of the lead is read and,
\* when it holds a message, replaced by an empty one
get_follow_up_messages(W, lead_id) ==
    [w |-> [W EXCEPT !.queue[lead_id] = <<>>], messages |-> W.queue[lead_id]]

\* a checker without the limit
never_too_many(state) == FALSE

too_many_follow_ups(state) == state.follow_up_count >= MaxFollowUps

\* where the body of the loop over inactive_users can raise: at the two
\* save_conversation_message calls, at the commit of add_follow_up_message,
\* at the save of update_conversation_state.  A failure is one failed call;
\* it says nothing about the calls that follow.
FailPoints ==
    IF scenario.faulty_sweeps THEN {"none", "save", "add", "update"} ELSE {"none"}

\* the body of 'for lead_id in inactive_users', with its try/except
follow_up_visit(W, l, fp) ==
    LET got == get_or_create_conversation_state(W.cs, W.db, l, TRUE)
        state == got.cs[l]
        W0 == With(W, got)
        W1 == add_follow_up_message(W0, l, follow_up_message(state.follow_up_count))
        upd == update_conversation_state(
                   W1.cs, W1.db, l,
                   [a \in {"follow_up_count"} |-> state.follow_up_count + 1],
                   fp # "update")
    IN IF too_many_follow_ups(state) \/ fp = "save" THEN W0
       ELSE IF fp = "add" THEN W1
       ELSE With(W1, upd)

Restrict(f, S) == [k \in DOMAIN f \cap S |-> f[k]]

\* cleanup_inactive_sessions(hours=24)
cleanup_inactive_sessions(W, ok) ==
    LET inactive_leads == {l \in DOMAIN W.cs : W.cs[l].last_activity = "old"}
    IN [W EXCEPT
          !.cs = Restrict(@, DOMAIN @ \ inactive_leads),
          !.tracker = Restrict(@, DOMAIN @ \ inactive_leads),
          !.queue = [l \in DOMAIN @ |-> IF l \in inactive_leads THEN <<>> ELSE @[l]],
          !.db = IF ok
                 THEN [l \in DOMAIN @ |-> IF @[l].last_activity = "old"
                                          THEN [@[l] EXCEPT !.is_active = FALSE]
                                          ELSE @[l]]
                 ELSE @]

\* GET /check_follow_up?lead_id=...: the response and the store after it
check_follow_up(W, lead_id) ==
    [w |-> W,
     response |-> IF lead_id = None THEN [has_follow_up |-> FALSE, message |-> None]
                  ELSE [has_follow_up |-> FALSE, message |-> "Follow-up system ready"]]

(***************************************************************************)
(* RootControlAgent (root_agent_system.py): the staged agent               *)
(***************************************************************************)
RootMinAge == 10
RootMaxAge == 120

ConversationStage == {"greeting", "name_collection", "age_collection",
                      "country_collection", "interest_collection", "confirmation",
                      "complete"}

LeadInfo == [name |-> None, age |-> None, country |-> None,
             product_interest |-> None, status |-> "new"]

is_complete(lead_info) ==
    /\ Truthy(lead_info.name) /\ Truthy(lead_info.age)
    /\ Truthy(lead_info.country) /\ Truthy(lead_info.product_interest)

\* response: history, the kind of text the last call of respond returned
UserSessionState == [current_stage |-> "greeting", lead_info |-> LeadInfo,
                     last_message |-> <<>>, response |-> "none"]

session_key(user_id, session_id) == user_id \o "_" \o session_id

\* the text of a message: its words joined by blanks
RECURSIVE Text(_)
Text(m) ==
    IF Len(m) = 0 THEN ""
    ELSE IF Len(m) = 1 THEN m[1]
    ELSE m[1] \o " " \o Text(Tail(m))

IsWord(t) == IsAlpha(t) \/ IsDigits(t)

\* the positions after which a pattern 'intro (\w+)' matches
AfterIntro(low, intros) ==
    {i \in 1..(Len(low) - 1) : low[i] \in intros /\ IsWord(low[i + 1])}

First(S) == CHOOSE i \in S : \A j \in S : i <= j

RootNameIntro == {"my name is", "i'm", "i am", "call me", "it's", "name is"}
RootCountryIntro == {"from", "in", "live in", "country is", "i'm in"}
RootInterestIntro == {"interested in", "looking for", "want", "need", "buying"}

extract_info_from_message(message, field_type) ==
    LET low == LowerMsg(message)
        digits == {i \in 1..Len(message) : IsDigits(message[i])}
        n == AfterIntro(low, RootNameIntro)
        c == AfterIntro(low, RootCountryIntro)
        p == {i \in 1..(Len(low) - 1) : low[i] \in RootInterestIntro}
    IN CASE field_type = "name" ->
              IF n # {} THEN Title(low[First(n) + 1])
              ELSE IF Len(message) = 1 /\ Len(message[1]) > 2 THEN Title(message[1])
              ELSE None
         [] field_type = "age" ->
              IF digits # {}
                 /\ RootMinAge <= IntOf(message[First(digits)])
                 /\ IntOf(message[First(digits)]) <= RootMaxAge
              THEN StrOf(IntOf(message[First(digits)])) ELSE None
         [] field_type = "country" ->
              IF c # {} THEN Title(low[First(c) + 1])
              ELSE IF Len(message) = 1 THEN Title(message[1])
              ELSE None
         [] field_type = "interest" ->
              IF p # {} THEN Text(SubSeq(low, First(p) + 1, Len(low)))
              ELSE Text(message)

root_affirmative == {"confirm", "yes", "correct", "right", "ok", "y", "confirmed"}

\* the process method of the stage agent: the session after it
process(session, message) ==
    LET stage == session.current_stage
        value(field) == extract_info_from_message(message, field)
    IN CASE stage = "greeting" -> [session EXCEPT !.current_stage = "name_collection",
                                                  !.response = "ask_name"]
         [] stage = "name_collection" ->
              IF Truthy(value("name"))
              THEN [session EXCEPT !.lead_info.name = value("name"),
                                   !.current_stage = "age_collection",
                                   !.response = "ask_age"]
              ELSE [session EXCEPT !.response = "ask_name"]
         [] stage = "age_collection" ->
              IF Truthy(value("age"))
              THEN [session EXCEPT !.lead_info.age = value("age"),
                                   !.current_stage = "country_collection",
                                   !.response = "ask_country"]
              ELSE [session EXCEPT !.response = "ask_age"]
         [] stage = "country_collection" ->
              IF Truthy(value("country"))
              THEN [session EXCEPT !.lead_info.country = value("country"),
                                   !.current_stage = "interest_collection",
                                   !.response = "ask_interest"]
              ELSE [session EXCEPT !.response = "ask_country"]
         [] stage = "interest_collection" ->
              IF Truthy(value("interest"))
              THEN [session EXCEPT !.lead_info.product_interest = value("interest"),
                                   !.current_stage = "confirmation",
                                   !.response = "confirmation"]
              ELSE [session EXCEPT !.response = "ask_interest"]
         [] stage = "confirmation" ->
              IF Len(message) = 1 /\ Lower(message[1]) \in root_affirmative
              THEN [session EXCEPT !.lead_info.status = "confirmed",
                                   !.current_stage = "complete",
                                   !.response = "confirmed"]
              ELSE [session EXCEPT !.response = "ask_correction"]

\* respond with stage_agents that has no agent for CONFIRMATION
respond_without_confirmation(session, message, ok) ==
    LET seen == [session EXCEPT !.last_message = message, !.response = "none"]
    IN IF ~ok THEN seen
       ELSE IF seen.current_stage \in {"complete", "confirmation"}
       THEN process([seen EXCEPT !.current_stage = "greeting"], message)
       ELSE process(seen, message)

\* respond: the message is noted, the context is fetched (ok: the fetch did
\* not raise), and the agent of the stage processes the message; a stage
\* without an agent (COMPLETE) falls back to GREETING
respond(session, message, ok) ==
    LET seen == [session EXCEPT !.last_message = message, !.response = "none"]
    IN IF ~ok THEN seen
       ELSE IF seen.current_stage = "complete"
       THEN process([seen EXCEPT !.current_stage = "greeting"], message)
       ELSE process(seen, message)


(***************************************************************************)
(* MultiAgentSystem (agent.py): the coordinator picks the agent from the   *)
(* lead information of the user and hands it the message.  The text of a   *)
(* reply comes from the language model and changes nothing that is kept.   *)
(***************************************************************************)
\* the words the patterns, and the single-word rule, of _extract_name refuse
pattern_common_words == {"hello", "hi", "there", "good", "nice", "great", "thanks",
                         "yes", "no", "the", "a", "an"}
single_common_words == {"hello", "hi", "there", "good", "nice", "great", "thanks",
                        "yes", "no", "the", "and", "but"}

\* GreetingAgent._extract_name
agent_extract_name(message) ==
    LET low == LowerMsg(message)
        n == {i \in AfterIntro(low, RootNameIntro) :
                low[i + 1] \notin pattern_common_words /\ Len(low[i + 1]) > 1}
    IN IF n # {} THEN Title(low[First(n) + 1])
       ELSE IF Len(message) = 1 /\ Len(message[1]) > 2
               /\ Lower(Title(message[1])) \notin single_common_words
       THEN Title(message[1])
       ELSE None

\* LeadInfo.get_missing_fields
get_missing_fields(lead_info) ==
    {f \in {"name", "age", "country", "product interest"} :
        ~Truthy(CASE f = "name" -> lead_info.name
                  [] f = "age" -> lead_info.age
                  [] f = "country" -> lead_info.country
                  [] f = "product interest" -> lead_info.product_interest)}

\* InfoCollectionAgent._get_current_focus
get_current_focus(missing_fields) ==
    IF "age" \in missing_fields THEN "age"
    ELSE IF "country" \in missing_fields THEN "country"
    ELSE IF "product interest" \in missing_fields THEN "product interest"
    ELSE "name"

\* InfoCollectionAgent._extract_info: the lead information after it
agent_extract_info(message, lead_info, focus) ==
    LET low == LowerMsg(message)
        digits == {i \in 1..Len(message) : IsDigits(message[i])}
        c == AfterIntro(low, RootCountryIntro)
        p == {i \in 1..(Len(low) - 1) : low[i] \in RootInterestIntro}
    IN CASE focus = "age" ->
              IF digits # {}
                 /\ RootMinAge <= IntOf(message[First(digits)])
                 /\ IntOf(message[First(digits)]) <= RootMaxAge
              THEN [lead_info EXCEPT !.age = message[First(digits)]]
              ELSE lead_info
         [] focus = "country" ->
              IF c # {} THEN [lead_info EXCEPT !.country = Title(low[First(c) + 1])]
              ELSE IF Len(message) = 1
              THEN [lead_info EXCEPT !.country = Title(message[1])]
              ELSE lead_info
         [] focus = "product interest" ->
              IF p # {}
              THEN [lead_info EXCEPT
                      !.product_interest = Text(SubSeq(low, First(p) + 1, Len(low)))]
              ELSE [lead_info EXCEPT !.product_interest = Text(message)]
         [] OTHER -> lead_info

agent_affirmative == {"confirm", "yes", "correct", "right", "ok", "y"}

\* the result of an agent's process: the lead information, the agent the
\* result names as the next one, and the key "confirmed" of the result
AgentResult(lead_info, next_agent, confirmed) ==
    [lead_info |-> lead_info, next_agent |-> next_agent, confirmed |-> confirmed]

\* the process method of the four agents
agent_process(agent, message, lead_info) ==
    CASE agent = "greeting_agent" ->
           IF Truthy(lead_info.name)
           THEN AgentResult(lead_info, "info_collection_agent", FALSE)
           ELSE IF Truthy(agent_extract_name(message))
           THEN AgentResult([lead_info EXCEPT !.name = agent_extract_name(message)],
                            "info_collection_agent", FALSE)
           ELSE AgentResult(lead_info, "greeting_agent", FALSE)
      [] agent = "info_collection_agent" ->
           IF get_missing_fields(lead_info) = {}
           THEN AgentResult(lead_info, "confirmation_agent", FALSE)
           ELSE LET got == agent_extract_info(message, lead_info,
                               get_current_focus(get_missing_fields(lead_info)))
                IN AgentResult(got,
                               IF get_missing_fields(got) = {} THEN "confirmation_agent"
                               ELSE "info_collection_agent", FALSE)
      [] agent = "confirmation_agent" ->
           IF ~is_complete(lead_info)
           THEN AgentResult(lead_info, "info_collection_agent", FALSE)
           ELSE IF Len(message) = 1 /\ Lower(message[1]) \in agent_affirmative
           THEN AgentResult(lead_info, "completion_agent", TRUE)
           ELSE AgentResult(lead_info, "confirmation_agent", FALSE)
      [] agent = "completion_agent" ->
           AgentResult(lead_info, "completion_agent", FALSE)

\* MultiAgentSystem._determine_current_agent
determine_current_agent(lead_info) ==
    IF ~Truthy(lead_info.name) THEN "greeting_agent"
    ELSE IF ~is_complete(lead_info) THEN "info_collection_agent"
    ELSE "confirmation_agent"

\* UserStateManager.get_user_state
get_user_state(states, user_id) ==
    IF user_id \in DOMAIN states THEN states[user_id] ELSE LeadInfo

\* MultiAgentSystem.process_conversation: the agent that handles the message
\* and its result
process_conversation(states, user_id, message) ==
    LET lead_info == get_user_state(states, user_id)
        current_agent_name == determine_current_agent(lead_info)
    IN [agent |-> current_agent_name,
        result |-> agent_process(current_agent_name, message, lead_info)]


(***************************************************************************)
(* The graph workflow (graph.py): an invocation builds its State from the  *)
(* message and runs greeting_node; a node hands over to the next node in   *)
(* the same invocation when its agent names it in next_agent.  The agents  *)
(* of the graph extract age, country and product interest as the agents of *)
(* the coordinator do (_extract_info and _get_current_focus have the same  *)
(* text in both files).                                                    *)
(***************************************************************************)
\* State as initialize_state builds it; path is history: the nodes the
\* invocation has run
State(message) ==
    [message |-> message, lead_info |-> LeadInfo, current_agent |-> "greeting_agent",
     next_agent |-> None, workflow_complete |-> FALSE, collection_stage |-> "greeting",
     path |-> <<>>]

GraphNameIntro == {"my name is", "i'm", "i am", "call me", "it's"}

\* GreetingAgent._extract_name of graph.py; the last pattern is ^(\w+)$
graph_extract_name(message) ==
    LET low == LowerMsg(message)
        n == AfterIntro(low, GraphNameIntro)
    IN IF n # {} THEN Title(low[First(n) + 1])
       ELSE IF Len(message) = 1 /\ IsWord(message[1]) THEN Title(low[1])
       ELSE None

\* InfoCollectionAgent._get_next_stage
get_next_stage(missing_fields) ==
    IF "age" \in missing_fields THEN "age"
    ELSE IF "country" \in missing_fields THEN "country"
    ELSE IF "product interest" \in missing_fields THEN "product"
    ELSE "confirmation"

graph_affirmative == {"confirm", "yes", "correct", "right", "ok"}

\* greeting_node: GreetingAgent.process, and the update of the state
greeting_node(state) ==
    LET at == [state EXCEPT !.current_agent = "greeting_agent",
                            !.path = Append(@, "greeting_node")]
        name == graph_extract_name(state.message)
    IN IF Truthy(state.lead_info.name)
       THEN [at EXCEPT !.next_agent = "info_collection_agent", !.collection_stage = "age"]
       ELSE IF Len(state.message) > 0 /\ Truthy(name)
       THEN [at EXCEPT !.lead_info.name = name,
                       !.next_agent = "info_collection_agent",
                       !.collection_stage = "age"]
       ELSE [at EXCEPT !.collection_stage = "name"]

\* info_collection_node: InfoCollectionAgent.process, and the update
info_collection_node(state) ==
    LET at == [state EXCEPT !.current_agent = "info_collection_agent",
                            !.path = Append(@, "info_collection_node")]
        missing_fields == get_missing_fields(state.lead_info)
        got == IF Len(state.message) > 0
               THEN agent_extract_info(state.message, state.lead_info,
                                       get_current_focus(missing_fields))
               ELSE state.lead_info
    IN IF missing_fields = {}
       THEN [at EXCEPT !.next_agent = "confirmation_agent",
                       !.collection_stage = "confirmation"]
       ELSE IF get_missing_fields(got) = {}
       THEN [at EXCEPT !.lead_info = got, !.next_agent = "confirmation_agent",
                       !.collection_stage = "confirmation"]
       ELSE [at EXCEPT !.lead_info = got,
                       !.collection_stage = get_next_stage(get_missing_fields(got))]

\* confirmation_node: ConfirmationAgent.process, and the update
confirmation_node(state) ==
    LET at == [state EXCEPT !.current_agent = "confirmation_agent",
                            !.path = Append(@, "confirmation_node")]
    IN IF ~is_complete(state.lead_info)
       THEN [at EXCEPT !.next_agent = "info_collection_agent", !.collection_stage = "age"]
       ELSE IF Len(state.message) = 1 /\ Lower(state.message[1]) \in graph_affirmative
       THEN [at EXCEPT !.next_agent = "completion_agent", !.collection_stage = "complete"]
       ELSE [at EXCEPT !.collection_stage = "confirmation"]

\* completion_node: CompletionAgent.process, and the update
completion_node(state) ==
    [state EXCEPT !.current_agent = "completion_agent",
                  !.path = Append(@, "completion_node"),
                  !.workflow_complete = TRUE, !.collection_stage = "complete"]

\* the edges of create_graph, from greeting_node to the end
invoke(message) ==
    LET greeted == greeting_node(State(message))
    IN IF greeted.next_agent # "info_collection_agent" THEN greeted
       ELSE LET collected == info_collection_node(greeted)
            IN IF collected.next_agent # "confirmation_agent" THEN collected
               ELSE LET asked == confirmation_node(collected)
                    IN IF asked.next_agent # "completion_agent" THEN asked
                       ELSE completion_node(asked)


(***************************************************************************)
(* The first application (app.py at the top of the repository): its        *)
(* conversation handler keeps the details of a lead in the dictionary      *)
(* conversation_details and takes them from the replies of the generative  *)
(* agent (call_agent_sync runs the agent of the Runner).  A reply is       *)
(* modelled by what the patterns of extract_user_details find in its text. *)
(***************************************************************************)
\* the replies the generative agent gives: without a detail, with a name,
\* with all but the interest, with the four details
GenerativeReplies ==
    {Reply("generic", NoDetails),
     Reply("summary", [NoDetails EXCEPT !["name"] = "Bob"]),
     Reply("summary", [name |-> "Bob", age |-> "30", country |-> "France",
                       interest |-> None]),
     Reply("summary", [name |-> "Bob", age |-> "30", country |-> "France",
                       interest |-> "Technology"])}

\* extract_user_details of app.py: the text after 'name:', 'age:', 'country:'
\* and 'interest:', for every text
app_extract_user_details(reply) == reply.shown

\* conversation_details[lead_id] as the handler creates it; said and rows are
\* history: the messages the lead has sent, the 'confirmed' rows written to
\* leads.csv
NewDetails ==
    [last_details_message |-> NoReply, collected_details |-> NoDetails,
     said |-> {}, rows |-> 0]

\* conversation, POST, with the reply the agent gives when it is called
app_conversation_post(cd, lead_id, message, agent_reply) ==
    LET entry == IF lead_id \in DOMAIN cd THEN cd[lead_id] ELSE NewDetails
        heard == [entry EXCEPT !.said = @ \cup {message}]
        stored == IF AllSet(entry.collected_details) THEN entry.collected_details
                  ELSE app_extract_user_details(entry.last_details_message)
        details == app_extract_user_details(agent_reply)
        collected == [f \in FieldSet |-> IF Truthy(details[f]) THEN details[f]
                                         ELSE entry.collected_details[f]]
        updated == [heard EXCEPT !.collected_details = collected]
    IN IF is_exit_command(message) THEN cd
       ELSE IF IsConfirm(message) /\ lead_id \in DOMAIN cd /\ AllSet(stored)
       THEN Put(cd, lead_id, [heard EXCEPT !.rows = @ + 1])
       ELSE IF FirstMissing(collected) = "interest" THEN Put(cd, lead_id, updated)
       ELSE IF AllSet(collected)
       THEN Put(cd, lead_id,
                [updated EXCEPT !.last_details_message =
                                    format_details_for_confirmation(collected)])
       ELSE IF AllSet(details)
       THEN Put(cd, lead_id, [updated EXCEPT !.last_details_message = agent_reply])
       ELSE Put(cd, lead_id, updated)

(***************************************************************************)
(* Scenarios: what the environment does in a behaviour.  The session store *)
(* and the staged agent share no state, so a behaviour runs one of them.   *)
(***************************************************************************)
\* requests one after another through the three entry points
SerialStore ==
    [layer |-> "store", serial |-> TRUE, faulty |-> FALSE, faulty_sweeps |-> FALSE,
     sweeps |-> FALSE, days |-> FALSE, restarts |-> TRUE,
     leads |-> FALSE, pair |-> FALSE, polls |-> FALSE, script |-> 0,
     messages |-> {<<"alice">>, <<"25">>, <<"150">>, <<"france">>, <<"technology">>,
                   <<"confirm">>, <<"Confirm">>, <<"yes">>, <<"hello">>,
                   <<"suggestions">>, <<"bye">>, <<"my age is", "30">>, <<"7">>,
                   <<"025">>},
     eps |-> EntryPoints, names |-> {"Alice", "Bob"}, ops |-> {},
     pairs |-> {}]

\* requests one after another, and the follow-up checker with a store that
\* fails during its sweeps
SweptStore ==
    [layer |-> "store", serial |-> TRUE, faulty |-> FALSE, faulty_sweeps |-> TRUE,
     sweeps |-> TRUE, days |-> FALSE, restarts |-> TRUE,
     leads |-> FALSE, pair |-> FALSE, polls |-> FALSE, script |-> 0,
     messages |-> {<<"alice">>, <<"25">>, <<"hello">>, <<"confirm">>},
     eps |-> {"ws"}, names |-> {}, ops |-> {},
     pairs |-> {}]

\* requests one after another with a store whose writes can fail, the
\* follow-up checker, and sessions that stay idle long enough to be cleaned up
IdleStore ==
    [layer |-> "store", serial |-> TRUE, faulty |-> TRUE, faulty_sweeps |-> FALSE,
     sweeps |-> TRUE, days |-> TRUE, restarts |-> TRUE,
     leads |-> FALSE, pair |-> FALSE, polls |-> FALSE, script |-> 0,
     messages |-> {<<"25">>, <<"hello">>, <<"confirm">>},
     eps |-> {"chat"}, names |-> {"Alice"}, ops |-> {},
     pairs |-> {}]

\* two workers handling requests for one lead at the same time, after the
\* conversation was started with a name
ConcurrentStore ==
    [layer |-> "store", serial |-> FALSE, faulty |-> FALSE, faulty_sweeps |-> FALSE,
     sweeps |-> FALSE, days |-> FALSE, restarts |-> FALSE,
     leads |-> FALSE, pair |-> FALSE, polls |-> FALSE, script |-> 0,
     messages |-> {<<"25">>, <<"30">>, <<"hello">>, <<"confirm">>},
     eps |-> {"chat"}, names |-> {"Alice"}, ops |-> {},
     pairs |-> {}]

\* a fresh lead sends MaxScript messages through chat or the WebSocket
ScriptedStore ==
    [layer |-> "store", serial |-> TRUE, faulty |-> FALSE, faulty_sweeps |-> FALSE,
     sweeps |-> FALSE, days |-> FALSE, restarts |-> FALSE,
     leads |-> FALSE, pair |-> FALSE, polls |-> FALSE, script |-> MaxScript,
     messages |-> {<<"alice">>, <<"25">>, <<"150">>, <<"france">>, <<"technology">>,
                   <<"hello">>},
     eps |-> {"chat", "ws"}, names |-> {}, ops |-> {},
     pairs |-> {}]

\* a lead's first messages through chat, one after another, with a store whose
\* writes can fail, and the Lead table
FaultyStore ==
    [layer |-> "store", serial |-> TRUE, faulty |-> TRUE, faulty_sweeps |-> FALSE,
     sweeps |-> FALSE, days |-> FALSE, restarts |-> FALSE,
     leads |-> TRUE, pair |-> FALSE, polls |-> FALSE, script |-> 0,
     messages |-> {<<"alice">>, <<"25">>, <<"hello">>},
     eps |-> {"chat"}, names |-> {}, ops |-> {},
     pairs |-> {}]

\* two threads that call the mutators of the StateManager for two leads; what
\* the calls do to the sessions is left to the other scenarios
LockedStore ==
    [layer |-> "lock", serial |-> FALSE, faulty |-> FALSE, faulty_sweeps |-> FALSE,
     sweeps |-> FALSE, days |-> FALSE, restarts |-> FALSE,
     leads |-> FALSE, pair |-> FALSE, polls |-> FALSE, script |-> 0,
     messages |-> {}, eps |-> {}, names |-> {},
     ops |-> {"update_conversation_state", "update_collected_details"},
     pairs |-> {}]

\* two threads that add follow-ups to the queue of a lead and get them, with
\* a store that can fail
QueueThreads ==
    [layer |-> "lock", serial |-> FALSE, faulty |-> TRUE, faulty_sweeps |-> FALSE,
     sweeps |-> FALSE, days |-> FALSE, restarts |-> FALSE,
     leads |-> FALSE, pair |-> FALSE, polls |-> FALSE, script |-> 0,
     messages |-> {}, eps |-> {}, names |-> {},
     ops |-> {"add_follow_up_message", "get_follow_up_messages"},
     pairs |-> {}]

\* two leads that send one message each and stay away, and the follow-up
\* checker with a store that fails during its sweeps
PairSwept ==
    [layer |-> "store", serial |-> TRUE, faulty |-> FALSE, faulty_sweeps |-> TRUE,
     sweeps |-> TRUE, days |-> FALSE, restarts |-> FALSE,
     leads |-> FALSE, pair |-> TRUE, polls |-> FALSE, script |-> 0,
     messages |-> {<<"hello">>, <<"alice">>},
     eps |-> {"ws"}, names |-> {}, ops |-> {},
     pairs |-> {}]

\* a lead that says hello and stays away for days, and the follow-up checker
\* with a store that fails during its sweeps
IdleSwept ==
    [layer |-> "store", serial |-> TRUE, faulty |-> FALSE, faulty_sweeps |-> TRUE,
     sweeps |-> TRUE, days |-> TRUE, restarts |-> FALSE,
     leads |-> FALSE, pair |-> FALSE, polls |-> FALSE, script |-> 0,
     messages |-> {<<"hello">>},
     eps |-> {"chat"}, names |-> {}, ops |-> {},
     pairs |-> {}]

\* the follow-up checker sweeping while two workers handle the messages of a
\* lead
ConcurrentSwept ==
    [layer |-> "store", serial |-> FALSE, faulty |-> FALSE, faulty_sweeps |-> FALSE,
     sweeps |-> TRUE, days |-> FALSE, restarts |-> FALSE,
     leads |-> FALSE, pair |-> FALSE, polls |-> FALSE, script |-> 0,
     messages |-> {<<"hello">>},
     eps |-> {"chat"}, names |-> {}, ops |-> {},
     pairs |-> {}]

\* a lead that says hello and stays away, the follow-up checker, and a client
\* that polls for the follow-ups
PolledStore ==
    [layer |-> "store", serial |-> TRUE, faulty |-> FALSE, faulty_sweeps |-> FALSE,
     sweeps |-> TRUE, days |-> FALSE, restarts |-> FALSE,
     leads |-> FALSE, pair |-> FALSE, polls |-> TRUE, script |-> 0,
     messages |-> {<<"hello">>},
     eps |-> {"chat"}, names |-> {}, ops |-> {},
     pairs |-> {}]

\* the first application: messages through its conversation handler
FirstApp ==
    [layer |-> "app", serial |-> TRUE, faulty |-> FALSE, faulty_sweeps |-> FALSE,
     sweeps |-> FALSE, days |-> FALSE, restarts |-> FALSE,
     leads |-> FALSE, pair |-> FALSE, polls |-> FALSE, script |-> 0,
     messages |-> {<<"hello">>, <<"alice">>, <<"confirm">>, <<"bye">>},
     eps |-> {}, names |-> {}, ops |-> {},
     pairs |-> {}]

\* the staged agent, with a context collaborator that can fail
StagedAgent ==
    [layer |-> "root", serial |-> TRUE, faulty |-> TRUE, faulty_sweeps |-> FALSE,
     sweeps |-> FALSE, days |-> FALSE, restarts |-> TRUE,
     leads |-> FALSE, pair |-> FALSE, polls |-> FALSE, script |-> 0,
     messages |-> {<<"alice">>, <<"025">>, <<"150">>, <<"7">>, <<"confirm">>,
                   <<"confirmed">>, <<"hello">>, <<"how", "are", "you", "?">>,
                   <<"my age is", "30">>},
     eps |-> {}, names |-> {}, ops |-> {},
     pairs |-> {<<"u1", "s1">>}]

\* the staged agent called for three pairs of a user and a session, two of them
\* with an underscore in the user or in the session
SharedAgent ==
    [layer |-> "root", serial |-> TRUE, faulty |-> FALSE, faulty_sweeps |-> FALSE,
     sweeps |-> FALSE, days |-> FALSE, restarts |-> FALSE,
     leads |-> FALSE, pair |-> FALSE, polls |-> FALSE, script |-> 0,
     messages |-> {<<"hello">>, <<"alice">>},
     eps |-> {}, names |-> {}, ops |-> {},
     pairs |-> {<<"u1_s", "s1">>, <<"u1", "s_s1">>, <<"u2", "s1">>}]

\* the coordinator of the four agents, and two users
Coordinated ==
    [layer |-> "multi", serial |-> TRUE, faulty |-> FALSE, faulty_sweeps |-> FALSE,
     sweeps |-> FALSE, days |-> FALSE, restarts |-> FALSE,
     leads |-> FALSE, pair |-> FALSE, polls |-> FALSE, script |-> 0,
     messages |-> {<<"alice">>, <<"025">>, <<"yes">>, <<"hello">>},
     eps |-> {}, names |-> {}, ops |-> {},
     pairs |-> {}]

\* invocations of the graph workflow
GraphWorkflow ==
    [layer |-> "graph", serial |-> TRUE, faulty |-> FALSE, faulty_sweeps |-> FALSE,
     sweeps |-> FALSE, days |-> FALSE, restarts |-> FALSE,
     leads |-> FALSE, pair |-> FALSE, polls |-> FALSE, script |-> 0,
     messages |-> {<<"alice">>, <<"025">>, <<"150">>, <<"hello">>, <<"yes">>,
                   <<"my age is", "30">>, <<"how", "are", "you", "?">>},
     eps |-> {}, names |-> {}, ops |-> {},
     pairs |-> {}]

Scenarios == {SerialStore, SweptStore, IdleStore, ConcurrentStore, ScriptedStore,
              FaultyStore, PairSwept, IdleSwept, ConcurrentSwept, PolledStore,
              LockedStore, QueueThreads, FirstApp, StagedAgent, SharedAgent,
              Coordinated,
              GraphWorkflow}

StartNames == {"Alice", "Bob"}

\* the leads of the threads that call the mutators
LockLeads == {"L1", "L2"}

\* the durable-store calls a mutator makes inside 'with self._lock', in order
DurableCalls(op) ==
    CASE op = "update_conversation_state" -> <<"_save_session_to_db">>
      [] op = "update_collected_details" -> <<"_save_session_to_db", "_update_lead_in_db">>
      [] op = "add_follow_up_message" -> <<"db.session.commit">>
      [] op = "get_follow_up_messages" -> <<"db.session.commit">>

Mutators == {"update_conversation_state", "update_collected_details",
             "add_follow_up_message", "get_follow_up_messages"}

\* a thread outside the StateManager; calls: history, the calls it has made
IdleCall == [op |-> "none", lead |-> "none", at |-> "idle", todo |-> <<>>, calls |-> 0]
RootUsers == {"u1"}
RootSessionIds == {"s1"}

Init ==
    /\ scenario \in Scenarios
    /\ conversation_states = <<>>
    /\ db_sessions = <<>>
    /\ db_leads = <<>>
    /\ activity_tracker = <<>>
    /\ follow_up_queue = [l \in Leads |-> <<>>]
    /\ csv_confirmed = [l \in Leads |-> 0]
    /\ conversation_rows = [l \in Leads |-> <<>>]
    /\ enqueued = [l \in Leads |-> 0]
    /\ handlers = [w \in Workers |-> IdleH]
    /\ sweep_pc = "sleep"
    /\ sweep_todo = {}
    /\ user_sessions = <<>>
    /\ conversation_details = <<>>
    /\ polled = [l \in Leads |-> [has_follow_up |-> FALSE, message |-> "not polled"]]
    /\ user_states = <<>>
    /\ agent_log = [u \in Leads |-> [agent |-> "none", accepted |-> FALSE]]
    /\ graph_state = State(<<>>)
    /\ served = <<>>
    /\ queue_log = [added |-> [l \in Leads |-> <<>>], returned |-> [l \in Leads |-> <<>>],
                    messages |-> [w \in Workers |-> <<>>]]
    /\ lock = "none"
    /\ threads = [w \in Workers |-> IdleCall]

AllIdle == \A w \in Workers : handlers[w].pc = "idle"
Quiet == AllIdle /\ sweep_pc = "sleep"

\* no request is admitted for a lead with MaxCsvRows confirmed rows; where
\* requests run at the same time, none after the last but one row
UserRows(l) == SelectSeq(conversation_rows[l], LAMBDA row : row.role = "user")

Admitted(l) ==
    /\ scenario.layer = "store"
    /\ IF scenario.pair THEN l \notin DOMAIN conversation_states ELSE l = "L1"
    /\ Followed => Len(UserRows(l)) < scenario.script
    /\ csv_confirmed[l] < (IF scenario.serial THEN MaxCsvRows ELSE MaxCsvRows - 1)

(***************************************************************************)
(* Actions                                                                 *)
(***************************************************************************)
\* a message handled from its arrival to the reply, nothing else in between
HandleMessage(l, ep, m) ==
    /\ Admitted(l) /\ scenario.serial /\ Quiet
    /\ ep \in scenario.eps /\ m \in scenario.messages
    /\ \E ok \in Oks :
         LET r == EnterRequest(World, l, ep, m, ok)
         IN \E W \in RunHandler(r.w, r.h, Oks) : SetWorld(W)
    /\ UNCHANGED <<scenario, handlers, sweepVars, user_sessions, conversation_details, lockVars, polled, coordVars>>

\* a worker takes a request (the first idle one does)
StartRequest(w, l, ep, m) ==
    /\ Admitted(l) /\ ~scenario.serial
    /\ ep \in scenario.eps /\ m \in scenario.messages
    /\ handlers[w].pc = "idle"
    /\ w = "w1" \/ handlers["w1"].pc # "idle"
    /\ \E ok \in Oks :
         LET r == EnterRequest(World, l, ep, m, ok)
         IN SetWorld(r.w) /\ handlers' = [handlers EXCEPT ![w] = r.h]
    /\ UNCHANGED <<scenario, sweepVars, user_sessions, conversation_details, lockVars, polled, coordVars>>

\* a worker runs its handler up to the end of the next lock section
HandlerStep(w) ==
    /\ handlers[w].pc # "idle"
    /\ \E ok \in Oks :
         LET r == HStep(World, handlers[w], ok)
         IN SetWorld(r.w) /\ handlers' = [handlers EXCEPT ![w] = r.h]
    /\ UNCHANGED <<scenario, sweepVars, user_sessions, conversation_details, lockVars, polled, coordVars>>

start_conversation(l, name) ==
    /\ Admitted(l) /\ Quiet
    /\ name \in scenario.names
    /\ scenario.restarts \/ l \notin DOMAIN conversation_states
    /\ \E ok \in Oks :
         LET r == EnterStart(World, l, name, ok)
         IN \E W \in RunHandler(r.w, r.h, Oks) : SetWorld(W)
    /\ UNCHANGED <<scenario, handlers, sweepVars, user_sessions, conversation_details, lockVars, polled, coordVars>>

conversation(l) ==
    /\ Admitted(l) /\ scenario.serial /\ Quiet
    /\ \E ok \in Oks : SetWorld(conversation_get(World, l, ok))
    /\ UNCHANGED <<scenario, handlers, sweepVars, user_sessions, conversation_details, lockVars, polled, coordVars>>

\* follow_up_checker wakes up: inactive_users = get_inactive_users(1).  No
\* lead with MaxEnqueued messages in its queue is visited.
SweepStart ==
    /\ scenario.layer = "store" /\ scenario.sweeps
    /\ sweep_pc = "sleep"
    /\ scenario.serial => AllIdle
    /\ sweep_pc' = "visit"
    /\ sweep_todo' = {l \in get_inactive_users(World) :
                        Len(follow_up_queue[l]) <
                            (IF scenario.pair THEN MaxPairEnqueued ELSE MaxEnqueued)}
    /\ UNCHANGED <<scenario, storeVars, handlers, user_sessions, conversation_details, lockVars, polled, coordVars>>

\* a loop without the try/except around its body: a failure ends the loop
UnguardedVisit(l, fp) ==
    /\ sweep_pc = "visit"
    /\ l \in sweep_todo
    /\ fp \in FailPoints
    /\ SetWorld(follow_up_visit(World, l, fp))
    /\ sweep_todo' = IF fp = "none" THEN sweep_todo \ {l} ELSE {}
    /\ UNCHANGED <<scenario, sweep_pc, handlers, user_sessions, conversation_details, lockVars, polled, coordVars>>

\* the visit of lead l in a sweep, raising at fp
SweepVisit(l, fp) ==
    /\ sweep_pc = "visit"
    /\ l \in sweep_todo
    /\ fp \in FailPoints
    /\ SetWorld(follow_up_visit(World, l, fp))
    /\ sweep_todo' = sweep_todo \ {l}
    /\ UNCHANGED <<scenario, sweep_pc, handlers, user_sessions, conversation_details, lockVars, polled, coordVars>>

SweepLead(l) == \E fp \in {"none", "save", "add", "update"} : SweepVisit(l, fp)

\* the end of a sweep in which the hour since the last cleanup has not passed
SweepEnd ==
    /\ sweep_pc = "visit"
    /\ sweep_todo = {}
    /\ sweep_pc' = "sleep"
    /\ UNCHANGED <<scenario, storeVars, sweep_todo, handlers, user_sessions, conversation_details, lockVars, polled, coordVars>>

\* the end of a sweep in which it has
SweepCleanup ==
    /\ sweep_pc = "visit"
    /\ sweep_todo = {}
    /\ \E ok \in (IF scenario.faulty_sweeps THEN BOOLEAN ELSE {TRUE}) :
         SetWorld(cleanup_inactive_sessions(World, ok))
    /\ sweep_pc' = "sleep"
    /\ UNCHANGED <<scenario, sweep_todo, handlers, user_sessions, conversation_details, lockVars, polled, coordVars>>

\* a client polls for the follow-ups of lead l
PollFollowUp(l) ==
    /\ scenario.layer = "store" /\ scenario.polls
    /\ Quiet
    /\ LET r == check_follow_up(World, l)
       IN /\ SetWorld(r.w)
          /\ polled' = [polled EXCEPT ![l] = r.response]
    /\ UNCHANGED <<scenario, handlers, sweepVars, user_sessions, conversation_details,
                   lockVars, coordVars>>

\* last_activity after some time without a write: "now" becomes when
Later(f, l, when) ==
    IF l \in DOMAIN f /\ f[l].last_activity = "now"
    THEN [f EXCEPT ![l].last_activity = when] ELSE f

\* a minute goes by without activity of lead l
MinutePasses(l) ==
    /\ scenario.sweeps
    /\ scenario.serial => sweep_pc = "sleep"
    /\ \/ l \in DOMAIN activity_tracker /\ activity_tracker[l] = "recent"
       \/ l \in DOMAIN conversation_states /\ conversation_states[l].last_activity = "now"
    /\ activity_tracker' = IF l \in DOMAIN activity_tracker
                           THEN [activity_tracker EXCEPT ![l] = "stale"]
                           ELSE activity_tracker
    /\ conversation_states' = Later(conversation_states, l, "minute")
    /\ db_sessions' = Later(db_sessions, l, "minute")
    /\ UNCHANGED <<scenario, db_leads, follow_up_queue, csv_confirmed, conversation_rows,
                   enqueued, handlers, sweepVars, user_sessions, conversation_details, lockVars, polled, coordVars>>

Aged(f, l) == IF l \in DOMAIN f THEN [f EXCEPT ![l].last_activity = "old"] ELSE f

\* 24 hours go by without activity of lead l
DayPasses(l) ==
    /\ scenario.days
    /\ Quiet
    /\ \/ l \in DOMAIN conversation_states /\ conversation_states[l].last_activity # "old"
       \/ l \in DOMAIN db_sessions /\ db_sessions[l].last_activity # "old"
    /\ conversation_states' = Aged(conversation_states, l)
    /\ db_sessions' = Aged(db_sessions, l)
    /\ activity_tracker' = IF l \in DOMAIN activity_tracker
                           THEN [activity_tracker EXCEPT ![l] = "stale"]
                           ELSE activity_tracker
    /\ UNCHANGED <<scenario, db_leads, follow_up_queue, csv_confirmed, conversation_rows,
                   enqueued, handlers, sweepVars, user_sessions, conversation_details, lockVars, polled, coordVars>>

\* a thread calls a mutator for a lead and arrives at 'with self._lock'
CallMutator(w, op, l) ==
    /\ scenario.layer = "lock"
    /\ op \in scenario.ops
    /\ threads[w].at = "idle"
    /\ threads[w].calls < MaxCalls
    /\ threads' = [threads EXCEPT ![w] = [op |-> op, lead |-> l, at |-> "waiting",
                                          todo |-> DurableCalls(op),
                                          calls |-> @.calls + 1]]
    /\ UNCHANGED <<scenario, storeVars, handlers, sweepVars, user_sessions, conversation_details, lock, polled, coordVars>>

\* the thread enters 'with self._lock' and changes the dictionaries in memory
AcquireLock(w) ==
    /\ threads[w].at = "waiting"
    /\ lock = "none"
    /\ lock' = w
    /\ LET l == threads[w].lead
           message == follow_up_message(Len(queue_log.added[l]))
           got == get_follow_up_messages(World, l)
       IN CASE threads[w].op = "add_follow_up_message" ->
                 /\ SetWorld(add_follow_up_message(World, l, message))
                 /\ queue_log' = [queue_log EXCEPT !.added[l] = Append(@, message)]
                 /\ threads' = [threads EXCEPT ![w].at = "memory"]
            [] threads[w].op = "get_follow_up_messages" ->
                 /\ SetWorld(got.w)
                 /\ queue_log' = [queue_log EXCEPT !.messages[w] = got.messages]
                 /\ threads' = [threads EXCEPT
                                  ![w].at = "memory",
                                  ![w].todo = IF got.messages = <<>> THEN <<>> ELSE @]
            [] OTHER ->
                 /\ threads' = [threads EXCEPT ![w].at = "memory"]
                 /\ UNCHANGED <<storeVars, queue_log>>
    /\ UNCHANGED <<scenario, handlers, sweepVars, user_sessions, conversation_details,
                   polled, user_states, agent_log, graph_state, served>>

\* the thread starts the next durable-store call of the method
DurableBegin(w) ==
    /\ threads[w].at = "memory"
    /\ threads[w].todo # <<>>
    /\ threads' = [threads EXCEPT ![w].at = "durable"]
    /\ UNCHANGED <<scenario, storeVars, handlers, sweepVars, user_sessions, conversation_details, lock, polled, coordVars>>

\* the durable-store call returns or raises; an exception ends the method, and
\* what get_follow_up_messages holds is not returned
DurableEnd(w) ==
    /\ threads[w].at = "durable"
    /\ \E ok \in Oks :
          /\ threads' = [threads EXCEPT ![w].at = "memory",
                                        ![w].todo = IF ok THEN Tail(@) ELSE <<>>]
          /\ queue_log' = IF ok THEN queue_log
                          ELSE [queue_log EXCEPT !.messages[w] = <<>>]
    /\ UNCHANGED <<scenario, storeVars, handlers, sweepVars, user_sessions,
                   conversation_details, lock, polled, user_states, agent_log,
                   graph_state, served>>

\* the end of the 'with' block: the lock is released and the method returns
\* (get_follow_up_messages: the messages it holds)
ReleaseLock(w) ==
    /\ threads[w].at = "memory"
    /\ threads[w].todo = <<>>
    /\ lock' = "none"
    /\ threads' = [threads EXCEPT ![w] = [IdleCall EXCEPT !.calls = threads[w].calls]]
    /\ queue_log' = [queue_log EXCEPT
                       !.returned[threads[w].lead] = @ \o queue_log.messages[w],
                       !.messages[w] = <<>>]
    /\ UNCHANGED <<scenario, storeVars, handlers, sweepVars, user_sessions,
                   conversation_details, polled, user_states, agent_log, graph_state, served>>

\* RootControlAgent.respond; ok = FALSE: get_user_context raises
RootRespond(user_id, session_id, m) ==
    /\ scenario.layer = "root"
    /\ m \in scenario.messages
    /\ \E ok \in Oks :
         LET key == session_key(user_id, session_id)
             session == IF key \in DOMAIN user_sessions THEN user_sessions[key]
                        ELSE UserSessionState
         IN /\ user_sessions' = Put(user_sessions, key, respond(session, m, ok))
            /\ served' = Put(served, key,
                             (IF key \in DOMAIN served THEN served[key] ELSE {})
                                \cup {<<user_id, session_id>>})
    /\ UNCHANGED <<scenario, storeVars, handlers, sweepVars, conversation_details,
                   lockVars, polled, user_states, agent_log, graph_state, queue_log>>

\* POST /conversation/<lead_id> of the first application; no request is
\* admitted for a lead with MaxCsvRows confirmed rows
app_conversation(l, m, agent_reply) ==
    /\ scenario.layer = "app"
    /\ m \in scenario.messages
    /\ l \in DOMAIN conversation_details => conversation_details[l].rows < MaxCsvRows
    /\ conversation_details' = app_conversation_post(conversation_details, l, m, agent_reply)
    /\ UNCHANGED <<scenario, storeVars, handlers, sweepVars, user_sessions, lockVars, polled, coordVars>>

\* MultiAgentSystem.process_conversation for a message of user_id
ProcessConversation(user_id, m) ==
    /\ scenario.layer = "multi"
    /\ m \in scenario.messages
    /\ LET done == process_conversation(user_states, user_id, m)
       IN /\ user_states' = Put(user_states, user_id, done.result.lead_info)
          /\ agent_log' = [agent_log EXCEPT
                             ![user_id] = [agent |-> done.agent,
                                           accepted |-> @.accepted \/ done.result.confirmed]]
    /\ UNCHANGED <<scenario, storeVars, handlers, sweepVars, user_sessions,
                   conversation_details, polled, lockVars, graph_state, queue_log, served>>

\* one invocation of the graph with a message
GraphInvoke(m) ==
    /\ scenario.layer = "graph"
    /\ m \in scenario.messages
    /\ graph_state' = invoke(m)
    /\ UNCHANGED <<scenario, storeVars, handlers, sweepVars, user_sessions,
                   conversation_details, polled, lockVars, user_states, agent_log,
                   queue_log, served>>

Next ==
    \/ \E l \in Leads, ep \in scenario.eps, m \in scenario.messages :
         HandleMessage(l, ep, m)
    \/ \E w \in Workers, l \in Leads, ep \in scenario.eps, m \in scenario.messages :
         StartRequest(w, l, ep, m)
    \/ \E w \in Workers : HandlerStep(w)
    \/ \E l \in Leads, name \in scenario.names : start_conversation(l, name)
    \/ \E l \in Leads : conversation(l)
    \/ \E l \in Leads : PollFollowUp(l)
    \/ SweepStart
    \/ \E l \in Leads : SweepLead(l)
    \/ SweepEnd
    \/ SweepCleanup
    \/ \E l \in Leads : MinutePasses(l)
    \/ \E l \in Leads : DayPasses(l)
    \/ \E pair \in scenario.pairs, m \in scenario.messages :
         RootRespond(pair[1], pair[2], m)
    \/ \E l \in Leads, m \in scenario.messages, reply \in GenerativeReplies :
         app_conversation(l, m, reply)
    \/ \E u \in Leads, m \in scenario.messages : ProcessConversation(u, m)
    \/ \E m \in scenario.messages : GraphInvoke(m)
    \/ \E w \in Workers, op \in Mutators, l \in LockLeads : CallMutator(w, op, l)
    \/ \E w \in Workers : AcquireLock(w)
    \/ \E w \in Workers : DurableBegin(w)
    \/ \E w \in Workers : DurableEnd(w)
    \/ \E w \in Workers : ReleaseLock(w)

Spec == Init /\ [][Next]_vars

\* follow_up_checker is a thread that loops for ever: it starts a sweep every
\* 30 seconds, visits every lead of the sweep and ends the sweep; and the
\* durable store does not fail for ever
LiveSpec ==
    /\ Spec
    /\ WF_vars(SweepStart)
    /\ WF_vars(\E l \in Leads : SweepLead(l))
    /\ WF_vars(SweepEnd \/ SweepCleanup)
    /\ SF_vars(\E l \in Leads : SweepVisit(l, "none"))


(***************************************************************************)
(* What the properties talk about                                          *)
(***************************************************************************)
\* a lead's session as the next request finds it: the one in memory, else
\* the one get_or_create_conversation_state would load
Session(l) ==
    IF l \in DOMAIN conversation_states THEN conversation_states[l]
    ELSE IF l \in DOMAIN db_sessions THEN StateFromRow(db_sessions[l])
    ELSE NewState

Slots(l) == Session(l).collected_details
Stage(l) == Session(l).current_step

\* every copy of a session there is: in memory and in the UserSession table
Copies ==
    {conversation_states[l] : l \in DOMAIN conversation_states}
        \cup {StateFromRow(db_sessions[l]) : l \in DOMAIN db_sessions}

\* the step is the handling of a message of the set M, whole (serial
\* scenarios) or one lock section of it
MessageStep(M) ==
    \/ \E l \in Leads, ep \in EntryPoints, m \in M : HandleMessage(l, ep, m)
    \/ \E w \in Workers : handlers[w].msg \in M /\ HandlerStep(w)

\* the affirmative tokens of the specification of the CONFIRMATION stage
affirmative_tokens == {"confirm", "yes", "correct", "right", "ok", "y"}
Affirmative == {m \in Messages : Len(m) = 1 /\ Lower(m[1]) \in affirmative_tokens}

\* messages that say nothing about the lead
ChitChat == {<<"hello">>, <<"how", "are", "you", "?">>}

(***************************************************************************)
(* Properties                                                              *)
(***************************************************************************)
\* C1: for messages handled one after another through any entry point, the
\* confirmed-status write (current_step = 'confirmed' with the append of a
\* 'confirmed' row to the leads file) happens at most once per lead.
C1_ConfirmedWrittenOnce ==
    scenario.serial => \A l \in Leads : csv_confirmed[l] <= 1

\* C2: of two handlers of 'confirm' that both began while pending_confirmation
\* was set and the four slots were filled, at most one makes the
\* confirmed-status write.
C2_OneConfirmWrites ==
    \A w1, w2 \in Workers :
        /\ w1 # w2
        /\ handlers[w1].found = "pending" /\ handlers[w2].found = "pending"
        /\ IsConfirm(handlers[w1].msg) /\ IsConfirm(handlers[w2].msg)
        => ~(handlers[w1].wrote /\ handlers[w2].wrote)

\* C3: where messages are handled one after another, the handling of a message
\* leaves every slot that holds a value with exactly that value.
C3_SetSlotsKept ==
    [][\A l \in Leads :
          (/\ scenario.serial
           /\ \E f \in FieldSet : Truthy(Slots(l)[f]) /\ Slots(l)'[f] # Slots(l)[f])
          => ~MessageStep(Messages)]_vars

\* C3, witness: after Alice gave her name and her age, the message 'alice' was
\* handled, and name and age are what they were.
C3_Witness ==
    /\ scenario.serial
    /\ Slots("L1") = [name |-> "Alice", age |-> "25", country |-> "Alice",
                      interest |-> None]

\* C4: when a handler writes the value it found for the field in focus, the
\* slots that hold a value keep it: no handler overwrites what another has
\* just set.
C4_NoOverwrite ==
    [][\A w \in Workers, l \in Leads :
          (/\ handlers[w].pc = "update" /\ handlers[w].lead = l
           /\ handlers'[w] # handlers[w])
          => \A f \in FieldSet :
                Truthy(Slots(l)[f]) => Slots(l)'[f] = Slots(l)[f]]_vars

\* C5: a handler of a chit-chat message that began while age was the field in
\* focus writes no slot, whatever a concurrent handler does.
C5_ChitChatWritesNothing ==
    [][\A w \in Workers, l \in Leads :
          (/\ handlers[w].found = "age missing" /\ handlers[w].lead = l
           /\ handlers[w].msg \in ChitChat
           /\ handlers'[w] # handlers[w])
          => Slots(l)' = Slots(l)]_vars

\* C6: a session in stage CONFIRMATION (current_step = 'confirmation' in the
\* store, ConversationStage.CONFIRMATION in the staged agent) has its four
\* slots filled.
C6_ConfirmationHasAllSlots ==
    /\ \A state \in Copies :
          state.current_step = "confirmation" => AllSet(state.collected_details)
    /\ \A key \in DOMAIN user_sessions :
          user_sessions[key].current_stage = "confirmation"
              => is_complete(user_sessions[key].lead_info)

\* C6, witness: a session of the store in stage CONFIRMATION.
C6_Witness ==
    \E l \in DOMAIN conversation_states :
        /\ conversation_states[l].current_step = "confirmation"
        /\ conversation_states[l].pending_confirmation

\* C7: a session leaves CONFIRMATION for COMPLETE/confirmed only in the
\* handling of a message that is, trimmed and in lower case, one of the
\* affirmative tokens.
C7_OnlyAffirmativeCompletes ==
    [][/\ \A l \in Leads :
             (Stage(l) = "confirmation" /\ Stage(l)' = "confirmed")
             => MessageStep(Affirmative)
       /\ \A key \in DOMAIN user_sessions :
             (/\ user_sessions[key].current_stage = "confirmation"
              /\ user_sessions'[key].current_stage = "complete")
             => \E u \in RootUsers, s \in RootSessionIds, m \in Affirmative :
                   RootRespond(u, s, m)]_vars

\* C8: follow_up_count is between 0 and 3 in every session.
C8_FollowUpCountInRange ==
    \A state \in Copies : state.follow_up_count \in 0..3

\* C8, witness: a lead with three follow-ups counted whom the checker visited
\* more often than that.
C8_Witness ==
    \E l \in DOMAIN conversation_states :
        /\ conversation_states[l].follow_up_count = 3
        /\ Len(follow_up_queue[l]) > 3

\* C9: while a lead stays inactive, at most 3 follow-up messages are appended
\* to its queue, whether or not the writes to the durable store succeed.
C9_AtMostThreeEnqueued ==
    \A l \in Leads : enqueued[l] <= 3

\* C10: no follow-up is appended for a lead whose current_step is 'confirmed'
\* when the checker visits it.
C10_NoFollowUpAfterConfirmed ==
    [][\A l \in Leads :
          enqueued'[l] > enqueued[l] => Stage(l) # "confirmed"]_vars

\* the user of lead l has done nothing for longer than the inactivity
\* threshold: nothing since the last recorded activity or, for a lead without
\* one, since the session was last written
Inactive(l) ==
    IF l \in DOMAIN activity_tracker THEN activity_tracker[l] = "stale"
    ELSE conversation_states[l].last_activity # "now"

\* a session that is due a follow-up
Eligible(l) ==
    /\ l \in DOMAIN conversation_states
    /\ conversation_states[l].current_step # "confirmed"
    /\ conversation_states[l].follow_up_count < 3
    /\ Inactive(l)
    /\ Len(follow_up_queue[l]) < MaxEnqueued

\* C11: under a fair scheduler, a session that is not complete, has been
\* inactive for longer than the threshold and has follow_up_count < 3
\* eventually gets a follow-up message (or stops being such a session), also
\* when it was created by start_conversation and has sent no message.
C11_FollowUpEventually ==
    \A l \in Leads, k \in 0..MaxEnqueued :
        (Eligible(l) /\ enqueued[l] = k) ~> (enqueued[l] > k \/ ~Eligible(l))

\* the four slots of a session of the staged agent
RootSlots(session) ==
    <<session.lead_info.name, session.lead_info.age, session.lead_info.country,
      session.lead_info.product_interest>>

\* C12: once a lead is confirmed, no later operation (there is no correction
\* operation) changes any of its four slot values: no message, no repeated
\* start_conversation for the lead, no follow-up sweep.
C12_ConfirmedSlotsFrozen ==
    [][/\ \A l \in Leads : Stage(l) = "confirmed" => Slots(l)' = Slots(l)
       /\ \A key \in DOMAIN user_sessions :
             user_sessions[key].lead_info.status = "confirmed"
             => RootSlots(user_sessions[key])' = RootSlots(user_sessions[key])]_vars

\* C13: COMPLETE is terminal: once the stage of a session is COMPLETE
\* (current_step = 'confirmed' in the store, ConversationStage.COMPLETE in
\* the staged agent), no message changes it, whatever it says.
C13_CompleteIsTerminal ==
    [][/\ \A l \in Leads :
             (Stage(l) = "confirmed" /\ Stage(l)' # "confirmed")
             => ~MessageStep(Messages)
       /\ \A key \in DOMAIN user_sessions :
             user_sessions[key].current_stage = "complete"
             => user_sessions'[key].current_stage = "complete"]_vars

\* the messages a lead has sent so far, oldest first
Script(l) == [i \in 1..Len(UserRows(l)) |-> UserRows(l)[i].content]

\* message m carries a value for slot f
Carries(m, f) ==
    CASE f = "name" -> DOMAIN ExtractName(LowerMsg(m)) # {}
      [] f = "age" -> DOMAIN ExtractAge(LowerMsg(m)) # {}
      [] f = "country" -> DOMAIN ExtractCountry(LowerMsg(m)) # {}
      [] f = "interest" -> DOMAIN ExtractInterest(LowerMsg(m)) # {}

\* the value message m supplies for slot f, as the store writes it
Supplied(m, f) ==
    CASE f = "name" -> ExtractName(LowerMsg(m))["name"]
      [] f = "age" -> ExtractAge(LowerMsg(m))["age"]
      [] f = "country" -> ExtractCountry(LowerMsg(m))["country"]
      [] f = "interest" -> ExtractInterest(LowerMsg(m))["interest"]

\* one message per slot, in the order name, age, country, interest
SlotScript(s) ==
    /\ Len(s) = Len(FieldSeq)
    /\ \A i \in 1..Len(FieldSeq) : Carries(s[i], FieldSeq[i])

\* C14: when a fresh lead has sent, through chat or the WebSocket, four
\* messages that carry a name, an age, a country and an interest in this order,
\* the session is at the stage CONFIRMATION and every slot holds the value
\* its message supplied.
C14_FourMessagesReachConfirmation ==
    \A l \in Leads :
        (Followed /\ Quiet /\ SlotScript(Script(l)))
        => /\ Stage(l) = "confirmation"
           /\ \A i \in 1..Len(FieldSeq) :
                  Slots(l)[FieldSeq[i]] = Supplied(Script(l)[i], FieldSeq[i])

\* the staged agent's session of a key, as respond finds or creates it
RootSession(key) ==
    IF key \in DOMAIN user_sessions THEN user_sessions[key] ELSE UserSessionState

RootKeys == {session_key(u, s) : u \in RootUsers, s \in RootSessionIds}

SlotTuple(d) == <<d["name"], d["age"], d["country"], d["interest"]>>

\* the positions where two slot tuples differ
Changed(old, new) == {i \in 1..Len(FieldSeq) : old[i] # new[i]}

\* the first slot without a value, in the order name, age, country, interest
FirstUnset(slots) ==
    {i \in 1..Len(FieldSeq) : ~Truthy(slots[i]) /\ \A j \in 1..(i - 1) : Truthy(slots[j])}

\* C15: the handling of one inbound message changes at most one slot, and
\* only the slot that was the first missing one, in the order name, age,
\* country, interest, before the message.
C15_OnlyFirstMissingSlotChanges ==
    [][/\ \A l \in Leads :
             (\E ep \in EntryPoints, m \in Messages : HandleMessage(l, ep, m))
             => Changed(SlotTuple(Slots(l)), SlotTuple(Slots(l))')
                    \subseteq FirstUnset(SlotTuple(Slots(l)))
       /\ \A key \in RootKeys :
             Changed(RootSlots(RootSession(key)), RootSlots(RootSession(key))')
                 \subseteq FirstUnset(RootSlots(RootSession(key)))]_vars

\* the last row of a lead in the Conversation table
LastRow(l) == conversation_rows[l][Len(conversation_rows[l])]

\* the reply is the question for field f
AsksFor(reply, f) == reply.kind = "ask_" \o f

\* the field the staged agent collects at a stage
RootFocus(stage) ==
    CASE stage = "name_collection" -> "name"
      [] stage = "age_collection" -> "age"
      [] stage = "country_collection" -> "country"
      [] stage = "interest_collection" -> "interest"
      [] OTHER -> "none"

\* the stores in which the handling of message m of lead l through entry
\* point ep, from its arrival to the reply, can end
Handled(l, ep, m) ==
    UNION {RunHandler(EnterRequest(World, l, ep, m, ok).w,
                      EnterRequest(World, l, ep, m, ok).h, Oks) : ok \in Oks}

\* a lead's session in store W, as the next request finds it
SessionIn(W, l) ==
    IF l \in DOMAIN W.cs THEN W.cs[l]
    ELSE IF l \in DOMAIN W.db THEN StateFromRow(W.db[l])
    ELSE NewState

OutOfRange ==
    {m \in scenario.messages :
        /\ Len(m) = 1 /\ IsDigits(m[1])
        /\ (IntOf(m[1]) < RootMinAge \/ IntOf(m[1]) > RootMaxAge)}

AgeInRange(age) == RootMinAge <= IntOf(age) /\ IntOf(age) <= RootMaxAge

\* C17: no session holds an age below 10 or above 120, and a message that is
\* a number outside 10..120, received while age is the focus field, leaves
\* the age unset and the focus on age.
C17_AgeOutOfRangeRejected ==
    /\ \A c \in Copies :
          Truthy(c.collected_details["age"]) => AgeInRange(c.collected_details["age"])
    /\ \A key \in DOMAIN user_sessions :
          Truthy(user_sessions[key].lead_info.age)
          => AgeInRange(user_sessions[key].lead_info.age)
    /\ \A l \in Leads, ep \in scenario.eps, m \in OutOfRange :
          (Admitted(l) /\ scenario.serial /\ Quiet /\ FirstMissing(Slots(l)) = "age")
          => \A W \in Handled(l, ep, m) :
                /\ ~Truthy(SessionIn(W, l).collected_details["age"])
                /\ FirstMissing(SessionIn(W, l).collected_details) = "age"
    /\ \A key \in RootKeys, m \in OutOfRange :
          ( /\ scenario.layer = "root"
            /\ RootSession(key).current_stage = "age_collection"
            /\ ~Truthy(RootSession(key).lead_info.age) )
          => /\ ~Truthy(respond(RootSession(key), m, TRUE).lead_info.age)
             /\ respond(RootSession(key), m, TRUE).current_stage = "age_collection"

\* a number outside 10..120 was the last message, age is the focus and unset
C17_Witness ==
    \/ \E l \in Leads :
          /\ Followed /\ Len(Script(l)) >= 2
          /\ Script(l)[Len(Script(l))] \in {<<"150">>, <<"7">>}
          /\ Script(l)[Len(Script(l)) - 1] = <<"alice">>
          /\ Truthy(Slots(l)["name"]) /\ ~Truthy(Slots(l)["age"])
    \/ \E key \in DOMAIN user_sessions :
          /\ user_sessions[key].current_stage = "age_collection"
          /\ user_sessions[key].last_message \in {<<"150">>, <<"7">>}
          /\ ~Truthy(user_sessions[key].lead_info.age)

\* C18: at the stage CONFIRMATION with the four slots set, each of the
\* messages confirm, yes, correct, right, ok and y, in any case, moves the
\* session to COMPLETE and finalizes the lead record (the store writes the
\* 'confirmed' row of leads.csv, the staged agent sets the status
\* 'confirmed').  Stated of every affirmative message the scenario can send
\* next in a reachable state, where the durable store does not fail.
C18_AffirmativeCompletes ==
    /\ \A l \in Leads, ep \in scenario.eps, m \in Affirmative \cap scenario.messages :
          ( /\ Admitted(l) /\ scenario.serial /\ Quiet /\ ~scenario.faulty
            /\ Stage(l) = "confirmation" /\ AllSet(Slots(l)) )
          => \A W \in Handled(l, ep, m) :
                /\ SessionIn(W, l).current_step = "confirmed"
                /\ W.csvc[l] = csv_confirmed[l] + 1
    /\ \A key \in RootKeys, m \in Affirmative \cap scenario.messages :
          ( /\ scenario.layer = "root"
            /\ RootSession(key).current_stage = "confirmation"
            /\ is_complete(RootSession(key).lead_info) )
          => /\ respond(RootSession(key), m, TRUE).current_stage = "complete"
             /\ respond(RootSession(key), m, TRUE).lead_info.status = "confirmed"

\* the words by which a message names a field
FieldKeywords(f) ==
    CASE f = "name" -> {"my name is", "name is"}
      [] f = "age" -> {"my age is"}
      [] f = "country" -> {"country is"}
      [] f = "interest" -> {"interested in"}

NamesField(m, f) == \E i \in 1..Len(m) : LowerMsg(m)[i] \in FieldKeywords(f)

\* slot number i of the order name, age, country, interest
SlotNo(f) == CHOOSE i \in 1..Len(FieldSeq) : FieldSeq[i] = f

\* C19: at the stage CONFIRMATION a message that is not affirmative, names a
\* field and carries a valid value for it puts that value in the field's slot
\* and leaves the stage CONFIRMATION; a message that is not affirmative and
\* names no field leaves the stage and the slots as they were.  Stated of
\* every message the scenario can send next in a reachable state, where the
\* durable store does not fail.
C19_CorrectionReplacesSlot ==
    /\ \A l \in Leads, ep \in scenario.eps, m \in scenario.messages \ Affirmative :
          ( /\ Admitted(l) /\ scenario.serial /\ Quiet /\ ~scenario.faulty
            /\ Stage(l) = "confirmation" /\ AllSet(Slots(l)) )
          => \A W \in Handled(l, ep, m) :
                /\ SessionIn(W, l).current_step = "confirmation"
                /\ \A f \in FieldSet :
                      (NamesField(m, f) /\ Carries(m, f))
                      => SessionIn(W, l).collected_details
                            = [Slots(l) EXCEPT ![f] = Supplied(m, f)]
                /\ (\A f \in FieldSet : ~NamesField(m, f))
                      => SessionIn(W, l).collected_details = Slots(l)
    /\ \A key \in RootKeys, m \in scenario.messages \ Affirmative :
          ( /\ scenario.layer = "root"
            /\ RootSession(key).current_stage = "confirmation"
            /\ m # <<"confirmed">> )
          => /\ respond(RootSession(key), m, TRUE).current_stage = "confirmation"
             /\ \A f \in FieldSet :
                   (NamesField(m, f) /\ Truthy(extract_info_from_message(m, f)))
                   => RootSlots(respond(RootSession(key), m, TRUE))
                         = [RootSlots(RootSession(key))
                               EXCEPT ![SlotNo(f)] = extract_info_from_message(m, f)]
             /\ (\A f \in FieldSet : ~NamesField(m, f))
                   => RootSlots(respond(RootSession(key), m, TRUE))
                         = RootSlots(RootSession(key))

\* C20: no durable-store call is in progress while the lock of the session
\* store is held, and no thread waits for the lock, to change one lead, while
\* the holder of the lock is in a durable-store call for another lead.
C20_NoDurableCallUnderLock ==
    /\ \A w \in Workers : threads[w].at = "durable" => lock = "none"
    /\ \A w1, w2 \in Workers :
          ~ ( /\ threads[w1].at = "waiting"
              /\ lock = w2 /\ threads[w2].at = "durable"
              /\ threads[w1].lead # threads[w2].lead )

\* the ends of the handling of message m of lead l through entry point ep:
\* the store it leaves and what the caller gets
Answers(l, ep, m) ==
    UNION {Outcomes(EnterRequest(World, l, ep, m, ok).w,
                    EnterRequest(World, l, ep, m, ok).h, Oks) : ok \in Oks}

\* C21: when a read or a write of the durable store fails while a message is
\* handled, the caller still gets a reply and never an error result.  Stated
\* of every message the scenario can send next in a reachable state, with a
\* store that can fail at each of its writes.
C21_FailureStillReplies ==
    \A l \in Leads, ep \in scenario.eps, m \in scenario.messages :
        (Admitted(l) /\ scenario.serial /\ Quiet /\ scenario.faulty)
        => \A r \in Answers(l, ep, m) : r.h.result = "reply"

\* the Lead row of lead l in store W agrees with the slots: every slot with a
\* value is in the row, the age as the number it spells
LeadAgrees(W, l, slots) ==
    LET lead == IF l \in DOMAIN W.leads THEN W.leads[l] ELSE NewLead
    IN /\ \A f \in {"name", "country", "interest"} : Truthy(slots[f]) => lead[f] = slots[f]
       /\ Truthy(slots["age"]) => lead.age = IntOf(slots["age"])

\* values of slots
SlotValues == {"Alice", "25", "France"}

\* C22: a slot update whose durable write fails keeps the slot value in
\* memory, and the next mutation of the lead that succeeds leaves the durable
\* session record and the durable lead record in agreement with the slots in
\* memory.  Stated of every slot update, and of every message the scenario
\* can send next, handled without a failure, in a reachable state of the
\* scenario that follows the Lead table.
C22_NextMutationRepairs ==
    /\ \A l \in DOMAIN conversation_states, f \in FieldSet, v \in SlotValues :
          update_collected_details(conversation_states, db_sessions, l,
                                   [g \in {f} |-> v], FALSE).cs[l].collected_details[f] = v
    /\ \A l \in Leads, ep \in scenario.eps, m \in scenario.messages :
          ( /\ Admitted(l) /\ scenario.serial /\ Quiet /\ scenario.leads
            /\ l \in DOMAIN conversation_states )
          => \A r \in Outcomes(EnterRequest(World, l, ep, m, TRUE).w,
                               EnterRequest(World, l, ep, m, TRUE).h, {TRUE}) :
                /\ l \in DOMAIN r.w.db
                /\ StateFromRow(r.w.db[l]).collected_details = r.w.cs[l].collected_details
                /\ LeadAgrees(r.w, l, r.w.cs[l].collected_details)

\* value v is one that message m gives: what an extractor finds in it, or
\* one of its words, as written or capitalised
FromMessage(m, v) ==
    \/ \E f \in FieldSet : Carries(m, f) /\ Supplied(m, f) = v
    \/ \E f \in FieldSet : extract_info_from_message(m, f) = v
    \/ \E i \in 1..Len(m) : v \in {m[i], Title(Lower(m[i]))}

\* the step handles message m of lead l
Handles(l, m) ==
    \/ \E ep \in EntryPoints : HandleMessage(l, ep, m)
    \/ \E w \in Workers : handlers[w].lead = l /\ handlers[w].msg = m /\ HandlerStep(w)

\* the details the first application holds for lead l
AppDetails(cd, l) == IF l \in DOMAIN cd THEN cd[l] ELSE NewDetails

\* C23: every value written to a slot comes from a message the lead has sent
\* (or is the name given to start_conversation); no slot is written with a
\* value parsed out of a reply of the assistant.  In the session store and in
\* the staged agent the value comes from the message that is being handled
\* (a write of the store leaves the session in memory).
C23_SlotValuesFromUser ==
    [][/\ \A l \in Leads, f \in FieldSet :
             ( /\ l \in DOMAIN conversation_states'
               /\ Truthy(Slots(l)'[f]) /\ Slots(l)'[f] # Slots(l)[f] )
             => \/ \E m \in Messages : FromMessage(m, Slots(l)'[f]) /\ Handles(l, m)
                \/ \E name \in StartNames :
                      f = "name" /\ Slots(l)'[f] = name /\ start_conversation(l, name)
       /\ \A key \in RootKeys, i \in 1..Len(FieldSeq) :
             ( /\ Truthy(RootSlots(RootSession(key))'[i])
               /\ RootSlots(RootSession(key))'[i] # RootSlots(RootSession(key))[i] )
             => FromMessage(RootSession(key)'.last_message, RootSlots(RootSession(key))'[i])
       /\ \A l \in Leads, f \in FieldSet :
             ( /\ Truthy(AppDetails(conversation_details, l)'.collected_details[f])
               /\ AppDetails(conversation_details, l)'.collected_details[f]
                     # AppDetails(conversation_details, l).collected_details[f] )
             => \E m \in AppDetails(conversation_details, l)'.said :
                   FromMessage(m, AppDetails(conversation_details, l)'.collected_details[f])
      ]_vars

\* the template that asks for the field a session of the staged agent is
\* collecting
FocusTemplate(session) ==
    CASE session.current_stage \in {"greeting", "name_collection"} -> "ask_name"
      [] session.current_stage = "age_collection" -> "ask_age"
      [] session.current_stage = "country_collection" -> "ask_country"
      [] session.current_stage = "interest_collection" -> "ask_interest"
      [] OTHER -> "confirmation"

\* C24: when the retrieval collaborator fails during a turn of the staged
\* agent, the turn is not failed: the reply is the template that asks for
\* the field in focus after the turn, and the session (stage and four slots)
\* is the one the turn leaves when the collaborator succeeds.
C24_CollaboratorFailureFallsBack ==
    \A key \in RootKeys, m \in scenario.messages :
        scenario.layer = "root"
        => LET failed == respond(RootSession(key), m, FALSE)
               worked == respond(RootSession(key), m, TRUE)
           IN /\ failed.response # "none"
              /\ failed.current_stage = worked.current_stage
              /\ RootSlots(failed) = RootSlots(worked)
              /\ failed.current_stage \notin {"confirmation", "complete"}
                 => failed.response = FocusTemplate(failed)

\* what the store holds for lead l
LeadView(W, l) ==
    <<IF l \in DOMAIN W.cs THEN <<W.cs[l]>> ELSE <<>>,
      IF l \in DOMAIN W.db THEN <<W.db[l]>> ELSE <<>>,
      IF l \in DOMAIN W.tracker THEN <<W.tracker[l]>> ELSE <<>>,
      W.queue[l], W.enq[l]>>

\* C25: within one sweep, a failure while one lead's follow-up is processed
\* does not stop the sweep: the visit of a lead, failed or not, leaves every
\* other lead of the snapshot in the sweep and its session untouched, and
\* the other lead is then processed as it is after a visit without failure.
C25_FailureDoesNotStopSweep ==
    [][\A l \in Leads, other \in Leads :
          (sweep_pc = "visit" /\ l \in sweep_todo /\ other \in sweep_todo \ {l})
          => /\ l \notin sweep_todo'
                => /\ sweep_pc' = "visit"
                   /\ other \in sweep_todo'
                   /\ LeadView(World, other)' = LeadView(World, other)
             /\ \A fp \in FailPoints, fp2 \in FailPoints :
                  LeadView(follow_up_visit(follow_up_visit(World, l, fp), other, fp2),
                           other)
                  = LeadView(follow_up_visit(follow_up_visit(World, l, "none"),
                                             other, fp2), other)]_vars

\* a sweep over two leads in which the visit of the first has failed after
\* the append (its queue has the message, its counter has not moved) and the
\* second is still to be visited
C25_Witness ==
    /\ scenario.faulty_sweeps
    /\ sweep_pc = "visit"
    /\ sweep_todo = {"L2"}
    /\ "L1" \in DOMAIN conversation_states
    /\ Len(follow_up_queue["L1"]) = 1
    /\ conversation_states["L1"].follow_up_count = 0

\* C26: the follow-up messages appended for a lead use the templates in
\* escalating order: every append takes the template of the lead's
\* follow_up_count (0 the gentle check-in, 1 the offer of help, 2 the final
\* nudge) and increments the counter by one, so that no template is repeated
\* or skipped.
C26_EscalatingTemplates ==
    [][\A l \in Leads, n \in 0..MaxFollowUps :
          (/\ l \in DOMAIN conversation_states
           /\ conversation_states[l].follow_up_count = n
           /\ Len(follow_up_queue'[l]) = Len(follow_up_queue[l]) + 1)
          => /\ n < MaxFollowUps
             /\ follow_up_queue'[l] = Append(follow_up_queue[l], follow_up_message(n))
             /\ l \in DOMAIN conversation_states'
             /\ conversation_states'[l].follow_up_count = n + 1]_vars

\* C27: a follow-up message enqueued for a lead is returned by a later poll
\* for that lead, and by one poll only: a poll for a lead with a message in
\* its queue answers has_follow_up with the text of the message and takes it
\* from the queue.
C27_PollReturnsEnqueued ==
    \A l \in Leads :
        (scenario.polls /\ Quiet /\ follow_up_queue[l] # <<>>)
        => LET r == check_follow_up(World, l)
           IN /\ r.response.has_follow_up
              /\ r.response.message = Head(follow_up_queue[l])
              /\ r.w.queue[l] = Tail(follow_up_queue[l])

\* the last save of the session of lead l has succeeded: the UserSession row
\* holds what the session in memory holds
Saved(l) ==
    /\ l \in DOMAIN conversation_states
    /\ l \in DOMAIN db_sessions
    /\ db_sessions[l].session_data = SessionRow(conversation_states[l]).session_data

\* what a session and its re-creation have to agree on
Kept4(state) ==
    <<state.current_step, state.collected_details, state.pending_confirmation,
      state.follow_up_count>>

\* C28: round trip through the durable store: when the session of a lead is
\* evicted from memory after a successful save, the session the next access
\* re-creates has the stage, the four slot values, the pending_confirmation
\* flag and the follow_up_count of the evicted one; and the session created
\* for a lead without a durable record has the first stage, empty slots and
\* follow_up_count 0.
C28_RoundTripThroughStore ==
    [][\A l \in Leads :
          /\ (Saved(l) /\ l \notin DOMAIN conversation_states')
             => Kept4(get_or_create_conversation_state(
                          conversation_states', db_sessions', l, TRUE).cs[l])
                = Kept4(conversation_states[l])
          /\ (l \notin DOMAIN conversation_states /\ l \notin DOMAIN db_sessions)
             => Kept4(get_or_create_conversation_state(
                          conversation_states, db_sessions, l, TRUE).cs[l])
                = <<"greeting", NoDetails, FALSE, 0>>]_vars

\* a session with a name and a follow-up sent that was loaded from its row
\* after the cleanup had evicted it (only the cleanup clears is_active, and
\* only in the row)
C28_Witness ==
    /\ "L1" \in DOMAIN conversation_states
    /\ ~conversation_states["L1"].is_active
    /\ conversation_states["L1"].collected_details["name"] = "Alice"
    /\ conversation_states["L1"].follow_up_count > 0

\* the digit substrings of a message
DigitStrings(m) == {m[i] : i \in {j \in 1..Len(m) : IsDigits(m[j])}}

\* C29: whenever an age is accepted, the string stored in the age slot is
\* exactly the digit substring found in the message (leading zeros are
\* neither added nor removed): by the extraction of the session store for
\* the details a lead has, and by a turn of the staged agent.
C29_AgeStoredAsWritten ==
    /\ \A l \in Leads, m \in scenario.messages :
          scenario.layer = "store"
          => LET found == extract_user_details_from_user_message(m, Slots(l))
             IN "age" \in DOMAIN found => found["age"] \in DigitStrings(m)
    /\ \A key \in RootKeys, m \in scenario.messages :
          scenario.layer = "root"
          => LET after == respond(RootSession(key), m, TRUE)
             IN after.lead_info.age # RootSession(key).lead_info.age
                => after.lead_info.age \in DigitStrings(m)

\* a message the handlers take for a command
IsCommand(m) ==
    IsConfirm(m) \/ is_exit_command(m) \/ IsSuggestion(m)

\* C30: the initial GREETING stage behaves as the NAME focus: a first message
\* that carries a valid name (and is not a command) fills the name slot in
\* that same turn and moves the focus to the age, in the staged agent and in
\* the session store.
C30_GreetingTakesName ==
    /\ \A key \in RootKeys, m \in scenario.messages :
          (/\ scenario.layer = "root"
           /\ RootSession(key).current_stage = "greeting"
           /\ ~IsCommand(m)
           /\ Truthy(extract_info_from_message(m, "name")))
          => LET after == respond(RootSession(key), m, TRUE)
             IN /\ after.lead_info.name = extract_info_from_message(m, "name")
                /\ after.current_stage = "age_collection"
    /\ \A l \in Leads, ep \in scenario.eps, m \in scenario.messages :
          (/\ Admitted(l) /\ scenario.serial /\ Quiet /\ ~scenario.faulty
           /\ Session(l) = NewState
           /\ ~IsCommand(m)
           /\ "name" \in DOMAIN extract_user_details_from_user_message(m, NoDetails))
          => \A W \in Handled(l, ep, m) :
                /\ SessionIn(W, l).collected_details["name"]
                   = extract_user_details_from_user_message(m, NoDetails)["name"]
                /\ ~Truthy(SessionIn(W, l).collected_details["age"])

C32_FollowUpCountMonotone ==
    [][\A l \in Leads :
          Session(l)'.follow_up_count >= Session(l).follow_up_count]_vars

\* C33: when the sweep of the follow-up checker runs while requests are
\* handled, no follow-up is appended for a lead whose last recorded activity
\* is newer than the inactivity threshold at the moment of the append (a lead
\* that sends a message after the snapshot was taken gets no follow-up from
\* that sweep).
C33_NoFollowUpForActiveLead ==
    [][\A l \in Leads :
          Len(follow_up_queue'[l]) > Len(follow_up_queue[l])
          => l \in DOMAIN activity_tracker /\ activity_tracker[l] = "stale"]_vars

\* C34: in the multi-agent coordinator, once the confirmation agent has
\* accepted an affirmative message for a complete lead, the status of the lead
\* is "confirmed" and every later message of the user is handled by the
\* completion agent, never again by the confirmation agent.
C34_ConfirmedGoesToCompletion ==
    \A u \in Leads :
       agent_log[u].accepted
       => /\ get_user_state(user_states, u).status = "confirmed"
          /\ \A m \in scenario.messages :
                process_conversation(user_states, u, m).agent = "completion_agent"

\* the slots an invocation of the graph has filled: the State of an
\* invocation starts with an empty LeadInfo
Filled(lead_info) ==
    {f \in {"name", "age", "country", "product interest"} : TRUE}
       \ get_missing_fields(lead_info)

\* C35: in the graph workflow one invocation fills at most one slot; when the
\* greeting node fills the name and hands over to the information collection
\* node in the same invocation, the message is not used again to fill age,
\* country or product interest.
C35_OneSlotPerInvocation ==
    /\ Cardinality(Filled(graph_state.lead_info)) <= 1
    /\ (graph_state.path = <<"greeting_node", "info_collection_node">>
        /\ Truthy(graph_state.lead_info.name))
       => Filled(graph_state.lead_info) = {"name"}

\* the stages of the staged agent in their order
StageOrder == <<"greeting", "name_collection", "age_collection", "country_collection",
                "interest_collection", "confirmation", "complete">>

StageNo(stage) == CHOOSE i \in 1..Len(StageOrder) : StageOrder[i] = stage

\* C36: in the staged root agent, from any stage other than COMPLETE one
\* message leaves the stage unchanged or advances it to its immediate
\* successor in the order GREETING, NAME, AGE, COUNTRY, INTEREST,
\* CONFIRMATION, COMPLETE; it never moves backwards and never skips a stage.
C36_StageAdvancesByOne ==
    [][\A key \in RootKeys :
          RootSession(key).current_stage # "complete"
          => StageNo(RootSession(key).current_stage') - StageNo(RootSession(key).current_stage)
                \in {0, 1}]_vars

C36_Witness ==
    \E key \in DOMAIN user_sessions :
       /\ user_sessions[key].current_stage = "country_collection"
       /\ user_sessions[key].last_message = <<"how", "are", "you", "?">>
       /\ user_sessions[key].response = "ask_country"
       /\ Truthy(user_sessions[key].lead_info.age)
       /\ ~Truthy(user_sessions[key].lead_info.country)

\* the messages a call of get_follow_up_messages for lead l has taken from
\* the queue and not yet returned
Held(l) ==
    IF \E w \in Workers : lock = w /\ threads[w].lead = l
                          /\ threads[w].op = "get_follow_up_messages"
    THEN queue_log.messages[lock] ELSE <<>>

\* C37: under any interleaving of add_follow_up_message and
\* get_follow_up_messages, each added message is returned by exactly one get
\* and in the order of the adds (what the gets have returned, then what the
\* queue holds, is what was added), and the queue of the lead is empty
\* immediately after a get.
C37_EachFollowUpReturnedOnce ==
    scenario.layer = "lock"
    => \A l \in Leads :
          /\ queue_log.returned[l] \o Held(l) \o follow_up_queue[l] = queue_log.added[l]
          /\ (\E w \in Workers : lock = w /\ threads[w].lead = l
                                 /\ threads[w].op = "get_follow_up_messages")
             => follow_up_queue[l] = <<>>

\* C38: in the staged root agent two different pairs (user_id, session_id)
\* never share a session: a session is handed to one pair only.
C38_SessionsNotShared ==
    \A key \in DOMAIN served : Cardinality(served[key]) <= 1

\* C39: a lead whose session the cleanup has evicted and who then sends a new
\* message gets a session that is eligible for follow-ups again: the
\* re-created session has is_active true, and the lead is reported by
\* get_inactive_users once its recorded activity is older than the threshold.
C39_EvictedLeadEligibleAgain ==
    [][\A l \in Leads :
          /\ ( /\ l \notin DOMAIN conversation_states
               /\ l \in DOMAIN db_sessions /\ ~db_sessions[l].is_active
               /\ l \in DOMAIN conversation_states' )
             => conversation_states'[l].is_active
          /\ ( /\ l \in DOMAIN conversation_states
               /\ l \in DOMAIN activity_tracker /\ activity_tracker[l] = "stale" )
             => l \in get_inactive_users(World)]_vars
====
